---- MODULE Spec2Model ----
(***************************************************************************)
(* Randomization and inference engine of redvsblue (src/rb).               *)
(*                                                                         *)
(* Numbers.  A Python float is modelled as an exact rational <<num, den>>  *)
(* with den > 0.  In _add_bh_q_values and _classify_evidence it is counted *)
(* in millionths (micro-units), so that the six-decimal text written by    *)
(* _fmt ("0.030000") is the integer 30000; the statistics of the two       *)
(* passes are rationals in units, in lowest terms, turned into millionths  *)
(* where _fmt writes them.  perm_std is carried as the variance and        *)
(* z_score as sign(z) * z^2, which are in one-to-one correspondence with   *)
(* the values written.                                                     *)
(* An Optional value is None == <<>> or Some(x) == <<x>>.  A CSV cell is a *)
(* record [k, v]: k = "num" (a six-decimal number, v in micro-units),      *)
(* k = "int" (str of an int), k = "empty" (the empty string), k = "text"   *)
(* (a non-numeric string) or k = "unset" (the key is absent from the row   *)
(* dict).                                                                  *)
(***************************************************************************)
EXTENDS Integers, Sequences, FiniteSets, TLC

VARIABLES
  bh_in,        \* SpecBH: the rows handed to _add_bh_q_values
  bh_rows,      \* SpecBH: the same rows after the call (q column written)
  bh_pc,        \* SpecBH: "call" before the call, "done" after it
  ev_cfg,       \* SpecTier: the run parameters [q_threshold, min_n]
  ev_prev,      \* SpecTier: the call of _classify_evidence before the last
  ev_cur,       \* SpecTier: the last call, [q, ci_lo, ci_hi, n, out]
  table,        \* the metrics CSV: rows [metric_id, party, value, term_start]
                \* (term-level) or [metric_id, term_id, value] (within)
  cfg,          \* the run parameters of the command line, and runs: how often
                \* the command is run on this table
  pc,           \* where the run stands: start, metric, perm, stats, done
                \* (w_metric, w_perm, w_stats in the within-president pass)
  run,          \* the number of the run under way (1, 2)
  groups,       \* metric_id -> observations, as loaded (within:
                \* <<metric_id, pres_party>> -> terms)
  todo,         \* the metric ids still to process, in loop order
  metric,       \* the key of the loop body under way (0: none)
  block_to_idx, \* the blocks of the metric: items [b, idxs] in dict order
  perm_labels,  \* the labels being permuted in the iteration under way
  blk,          \* number of blocks already shuffled in that iteration
  shuffled,     \* the keys of those blocks, in the order they were shuffled
  it,           \* number of permutation iterations completed for the metric
  perm_diffs,   \* the null draws of the metric
  rng,          \* the permutation generator [seed, pos]
  boot_rng,     \* the bootstrap generator [seed, pos]
  tape,         \* seed -> the outcomes that seed's stream has produced
  rows,         \* the output rows built so far
  out_csv,      \* the rows of the output file (<<>> before the first write)
  prev_out,     \* the output file as the previous run left it
  window_labels,\* within-president pass: the rows of the window-labels CSV
  term_items,   \* list(terms.values()) of the group being permuted
  ti,           \* number of terms already reshuffled in the iteration
  flags,        \* the flags of the term reshuffled last, as shuffled
  ds,           \* the term deltas of the iteration under way
  perm_stats,   \* the null draws of the group
  ties,         \* the half-way q values rounded so far: [seen, up], floors
  call_in,      \* a helper called by itself: [fn, ...] its name and arguments
  call_out,     \* what the call returned
  call_pc       \* "call" before the call, "done" after it

bhVars == <<bh_in, bh_rows, bh_pc>>
evVars == <<ev_cfg, ev_prev, ev_cur>>
winVars == <<window_labels, term_items, ti, flags, ds, perm_stats>>
engVars == <<table, cfg, pc, run, groups, todo, metric, block_to_idx,
             perm_labels, blk, shuffled, it, perm_diffs, rng, boot_rng, tape,
             rows, out_csv, prev_out, winVars, ties>>
callVars == <<call_in, call_out, call_pc>>
vars == <<bhVars, evVars, engVars, callVars>>

IdleBH == bh_in = <<>> /\ bh_rows = <<>> /\ bh_pc = "idle"
IdleEv == ev_cfg = <<>> /\ ev_prev = <<>> /\ ev_cur = <<>>
IdleCall == call_in = <<>> /\ call_out = <<>> /\ call_pc = "idle"
IdleEng ==
  /\ table = <<>> /\ cfg = <<>> /\ pc = "idle" /\ run = 0 /\ groups = <<>>
  /\ todo = <<>> /\ metric = 0 /\ block_to_idx = <<>>
  /\ perm_labels = <<>> /\ blk = 0
  /\ shuffled = <<>> /\ it = 0 /\ perm_diffs = <<>> /\ rng = <<>>
  /\ boot_rng = <<>> /\ tape = <<>> /\ rows = <<>> /\ out_csv = <<>>
  /\ prev_out = <<>> /\ window_labels = <<>> /\ term_items = <<>> /\ ti = 0
  /\ flags = <<>>
  /\ ds = <<>> /\ perm_stats = <<>> /\ ties = <<>>

(***************************************************************************)
(* Bounds of the model.                                                    *)
(***************************************************************************)
MaxRowsBH == 3
MaxN == 2
MaxObs == 3
MaxPerms == 2
MaxBlockYears == 1
MaxPermsRun == 1
MaxBootRun == 1
MaxLenDiff == 4
MaxWindows == 3

(***************************************************************************)
(* Program constants.                                                      *)
(***************************************************************************)
Micro == 1000000
DefaultSeed == 42
STRICT_Q_DEFAULT == 50000
SUPPORTIVE_Q_THRESHOLD == 100000

(***************************************************************************)
(* Optional values, rationals, cells.                                      *)
(***************************************************************************)
None == <<>>
Some(x) == <<x>>

Rat(n, d) == <<n, d>>
RLe(a, b) == a[1] * b[2] <= b[1] * a[2]
RLt(a, b) == a[1] * b[2] < b[1] * a[2]
REq(a, b) == a[1] * b[2] = b[1] * a[2]
\* Python's min(a, b): b only when b < a.
RMin(a, b) == IF RLt(b, a) THEN b ELSE a

NumCell(v) == [k |-> "num", v |-> v]
EmptyCell == [k |-> "empty", v |-> 0]
TextCell == [k |-> "text", v |-> 0]
UnsetCell == [k |-> "unset", v |-> 0]

\* r.get(col) or "" followed by _parse_float: a float for a numeric string,
\* None for the empty string, an absent key or a string float() rejects.
parse_float_blank_zero(cell) ==
  IF cell.k = "num" THEN Some(Rat(cell.v, 1)) ELSE Some(Rat(0, 1))

parse_float(cell) == IF cell.k = "num" THEN Some(Rat(cell.v, 1)) ELSE None

\* f"{v:.6f}" rounds the float to the nearest millionth.  A value exactly
\* half way between two millionths is rounded by the binary representation
\* error of the float, which the rational does not carry: `up` is the set of
\* floors whose half-way value rounds up (equal floats round alike).
fmt_num(x, up) ==
  LET fl == x[1] \div x[2]
      rm == x[1] % x[2]
  IN  IF 2 * rm < x[2] THEN fl
      ELSE IF 2 * rm > x[2] THEN fl + 1
      ELSE IF fl \in up THEN fl + 1 ELSE fl

fmt(v, up) == IF v = None THEN EmptyCell ELSE NumCell(fmt_num(v[1], up))

IsTie(x) == 2 * (x[1] % x[2]) = x[2]
TieFloor(x) == x[1] \div x[2]

(***************************************************************************)
(* _add_bh_q_values (randomization.py 140-171).                            *)
(***************************************************************************)
RECURSIVE p_items_from(_, _)
\* for i, r in enumerate(rows): keep (i, p) when p parses.
p_items_from(rs, i) ==
  IF i > Len(rs) THEN <<>>
  ELSE LET p == parse_float(rs[i].p)
       IN  (IF p = None THEN <<>> ELSE << <<i, p[1]>> >>)
             \o p_items_from(rs, i + 1)

bh_m_all(p_items, rs) == Len(rs)
\* m = len(p_items)
bh_m(p_items, rs) == Len(p_items)

\* sorted() is stable: an item goes after every item whose key is <= its own.
InsertStable(s, t) ==
  LET k == Cardinality({j \in 1..Len(s) : RLe(s[j][2], t[2])})
  IN  SubSeq(s, 1, k) \o <<t>> \o SubSeq(s, k + 1, Len(s))

sorted_by_position(items) == items

RECURSIVE sorted_by_p(_)
sorted_by_p(items) ==
  IF items = <<>> THEN <<>>
  ELSE InsertStable(sorted_by_p(SubSeq(items, 1, Len(items) - 1)),
                    items[Len(items)])

RECURSIVE bh_sweep_nomin(_, _, _, _)
bh_sweep_nomin(ranked, m, k, prev) ==
  IF k = 0 THEN <<>>
  ELSE LET p == ranked[k][2]
           q == Rat(p[1] * m, p[2] * k)
       IN  Append(bh_sweep_nomin(ranked, m, k - 1, q), q)

RECURSIVE bh_sweep(_, _, _, _)
\* for k in range(m - 1, -1, -1): q = min(prev, p * m / rank); prev = q.
\* Here k is the 1-indexed rank.
bh_sweep(ranked, m, k, prev) ==
  IF k = 0 THEN <<>>
  ELSE LET p == ranked[k][2]
           q == RMin(prev, Rat(p[1] * m, p[2] * k))
       IN  Append(bh_sweep(ranked, m, k - 1, q), q)

bh_q_tmp(rs) ==
  LET items == p_items_from(rs, 1)
      m == bh_m(items, rs)
  IN  bh_sweep(sorted_by_p(items), m, Len(items), Rat(Micro, 1))

idx_to_q_by_rank(ranked, q_tmp, i) ==
  IF i \in 1..Len(q_tmp) THEN Some(q_tmp[i]) ELSE None
\* idx_to_q[idx] = q_tmp[k] for (idx, _) = ranked[k]; .get(i) is None otherwise.
idx_to_q(ranked, q_tmp, i) ==
  IF \E k \in 1..Len(ranked) : ranked[k][1] = i
  THEN Some(q_tmp[CHOOSE k \in 1..Len(ranked) : ranked[k][1] = i])
  ELSE None

\* The call made on each row by itself.
add_bh_q_values_each(rs, up) ==
  [i \in 1..Len(rs) |-> [rs[i] EXCEPT !.q = fmt(parse_float(rs[i].p), up)]]
add_bh_q_values(rs, up) ==
  LET items == p_items_from(rs, 1)
      ranked == sorted_by_p(items)
      q_tmp == bh_q_tmp(rs)
  IN  IF Len(items) = 0
      THEN [i \in 1..Len(rs) |-> [rs[i] EXCEPT !.q = EmptyCell]]
      ELSE [i \in 1..Len(rs) |->
              [rs[i] EXCEPT !.q = fmt(idx_to_q(ranked, q_tmp, i), up)]]

\* The floors of the q values that lie half way between two millionths.
bh_tie_floors(rs) ==
  LET q_tmp == bh_q_tmp(rs)
  IN  {TieFloor(q_tmp[k]) : k \in {j \in 1..Len(q_tmp) : IsTie(q_tmp[j])}}

(***************************************************************************)
(* SpecBH: _add_bh_q_values applied to every list of at most MaxRowsBH     *)
(* rows whose p cell is a six-decimal number in [0, 1], empty or text.     *)
(***************************************************************************)
PValsBH == {0, 1, 3, 5, 10000, 30000, 40000, 500000, Micro}
PCellsBH == {NumCell(v) : v \in PValsBH} \cup {EmptyCell, TextCell}
RowsBH ==
  UNION {[1..n -> {[p |-> c, q |-> UnsetCell] : c \in PCellsBH}] :
           n \in 0..MaxRowsBH}

InitBH ==
  /\ bh_in \in RowsBH
  /\ bh_rows = bh_in
  /\ bh_pc = "call"
  /\ IdleEv
  /\ IdleEng
  /\ IdleCall

CallBH ==
  /\ bh_pc = "call"
  /\ \E up \in SUBSET bh_tie_floors(bh_in) :
       bh_rows' = add_bh_q_values(bh_in, up)
  /\ bh_pc' = "done"
  /\ UNCHANGED <<bh_in, evVars, engVars, callVars>>

NextBH == CallBH
SpecBH == InitBH /\ [][NextBH]_vars

(***************************************************************************)
(* Claims about _add_bh_q_values, checked under SpecBH.                     *)
(***************************************************************************)
NumIdx(rs) == {i \in 1..Len(rs) : rs[i].p.k = "num"}
PAt(rs, i) == rs[i].p.v
\* 1-indexed rank of row i in the stable ascending sort by p.
BHRank(rs, i) ==
  Cardinality({j \in NumIdx(rs) :
                 \/ PAt(rs, j) < PAt(rs, i)
                 \/ PAt(rs, j) = PAt(rs, i) /\ j <= i})
BHAtRank(rs, r) == CHOOSE j \in NumIdx(rs) : BHRank(rs, j) = r
\* min over ranks r' >= rank(i) of p[r'] * m / r'.
BHMin(rs, i) ==
  LET m == Cardinality(NumIdx(rs))
      cands == {Rat(PAt(rs, BHAtRank(rs, r)) * m, r) :
                  r \in BHRank(rs, i)..m}
  IN  CHOOSE x \in cands : \A y \in cands : RLe(x, y)
\* v is a millionth nearest to x: the six-decimal text of x.
Nearest(v, x) ==
  /\ 2 * (v * x[2] - x[1]) <= x[2]
  /\ 2 * (x[1] - v * x[2]) <= x[2]
BHExampleIn ==
  << [p |-> NumCell(10000), q |-> UnsetCell],
     [p |-> NumCell(40000), q |-> UnsetCell],
     [p |-> NumCell(30000), q |-> UnsetCell] >>

\* C1: after _add_bh_q_values every row with a numeric p holds, as six-decimal
\* text, q = min over ranks r' >= r of p[r'] * m / r' (r the row's rank in the
\* stable ascending sort by p, m the number of numeric p's), written to the row
\* the p came from; p = [0.01, 0.04, 0.03] gives q = [0.03, 0.04, 0.04].
C1_BHFormula ==
  bh_pc = "done" =>
    /\ Len(bh_rows) = Len(bh_in)
    /\ \A i \in NumIdx(bh_in) :
         /\ bh_rows[i].p = bh_in[i].p
         /\ bh_rows[i].q.k = "num"
         /\ Nearest(bh_rows[i].q.v, BHMin(bh_in, i))
    /\ bh_in = BHExampleIn =>
         [i \in 1..3 |-> bh_rows[i].q] =
           <<NumCell(30000), NumCell(40000), NumCell(40000)>>

C1_Witness ==
  /\ bh_pc = "done"
  /\ Len(bh_in) = 3
  /\ NumIdx(bh_in) = {1, 2, 3}
  /\ PAt(bh_in, 2) > PAt(bh_in, 3)
  /\ PAt(bh_in, 3) > PAt(bh_in, 1)
  /\ bh_rows[1].q.v < bh_rows[3].q.v
  /\ bh_rows[1].q.v > PAt(bh_in, 1)

\* C2: for p-values in [0, 1] the q-values are non-decreasing in p, and every
\* row has q >= p.
C2_BHMonotone ==
  bh_pc = "done" =>
    /\ \A i, j \in NumIdx(bh_in) :
         PAt(bh_in, i) <= PAt(bh_in, j) => bh_rows[i].q.v <= bh_rows[j].q.v
    /\ \A i \in NumIdx(bh_in) : bh_rows[i].q.v >= PAt(bh_in, i)

\* The running minimum binds: a middle rank's own p * m / rank exceeds its q.
C2_Witness ==
  /\ bh_pc = "done"
  /\ \E i \in NumIdx(bh_in) :
       LET m == Cardinality(NumIdx(bh_in))
           r == BHRank(bh_in, i)
       IN  /\ r < m
           /\ PAt(bh_in, i) * m > (bh_rows[i].q.v + 1) * r
           /\ bh_rows[i].q.v > PAt(bh_in, i)

RECURSIVE KeptRows(_)
\* The rows with a numeric p, in order.
KeptRows(rs) ==
  IF rs = <<>> THEN <<>>
  ELSE (IF rs[1].p.k = "num" THEN <<rs[1]>> ELSE <<>>)
         \o KeptRows(SubSeq(rs, 2, Len(rs)))
PosInKept(rs, i) == Cardinality({j \in NumIdx(rs) : j <= i})

\* C3: a row whose p is missing or non-numeric gets an empty q and is not
\* counted in m: the other rows get the q they get when such rows are removed;
\* with no numeric p at all every q is blank.
C3_BHMissing ==
  bh_pc = "done" =>
    /\ \A i \in (1..Len(bh_in)) \ NumIdx(bh_in) : bh_rows[i].q = EmptyCell
    /\ \A i \in NumIdx(bh_in) :
         \E up \in SUBSET bh_tie_floors(KeptRows(bh_in)) :
           bh_rows[i].q =
             add_bh_q_values(KeptRows(bh_in), up)[PosInKept(bh_in, i)].q
    /\ NumIdx(bh_in) = {} =>
         \A i \in 1..Len(bh_in) : bh_rows[i].q = EmptyCell

C3_Witness ==
  /\ bh_pc = "done"
  /\ Len(bh_in) = 3
  /\ bh_in[1].p = EmptyCell
  /\ bh_in[2].p.k = "num"
  /\ bh_in[3].p.k = "num"
  /\ bh_in[3].p.v < bh_in[2].p.v
  /\ bh_rows[1].q = EmptyCell
  /\ bh_rows[3].q.v = 2 * bh_in[3].p.v

C3_WitnessAllBlank ==
  /\ bh_pc = "done"
  /\ Len(bh_in) = 2
  /\ bh_in[1].p = EmptyCell
  /\ bh_in[2].p = TextCell
  /\ bh_rows[1].q = EmptyCell
  /\ bh_rows[2].q = EmptyCell

(***************************************************************************)
(* _classify_evidence (randomization.py 174-203) and _tier_rank.           *)
(***************************************************************************)
Flag(b) == IF b THEN "1" ELSE "0"

tier_of_ci_gated(pass_q_threshold, pass_q_010, pass_ci, pass_n) ==
  IF pass_q_threshold /\ pass_n /\ pass_ci THEN "confirmatory"
  ELSE IF pass_q_010 /\ pass_n THEN "supportive"
  ELSE "exploratory"
tier_of_supportive_first(pass_q_threshold, pass_q_010, pass_ci, pass_n) ==
  IF pass_q_010 /\ pass_n THEN "supportive"
  ELSE IF pass_q_threshold /\ pass_n THEN "confirmatory"
  ELSE "exploratory"
tier_of_le(pass_q_threshold, pass_q_010, pass_ci, pass_n) ==
  IF pass_q_threshold /\ pass_n THEN "confirmatory"
  ELSE IF pass_q_010 THEN "supportive"
  ELSE "exploratory"
\* if pass_q_threshold and pass_n / elif pass_q_010 and pass_n / else.
tier_of(pass_q_threshold, pass_q_010, pass_ci, pass_n) ==
  IF pass_q_threshold /\ pass_n THEN "confirmatory"
  ELSE IF pass_q_010 /\ pass_n THEN "supportive"
  ELSE "exploratory"

Zero == Rat(0, 1)
classify_evidence(q, ci_lo, ci_hi, n, q_threshold, min_n) ==
  LET pass_q_threshold == q # None /\ RLt(q[1], q_threshold)
      pass_q_005 == q # None /\ RLt(q[1], Rat(STRICT_Q_DEFAULT, 1))
      pass_q_010 == q # None /\ RLt(q[1], Rat(SUPPORTIVE_Q_THRESHOLD, 1))
      pass_ci == /\ ci_lo # None
                 /\ ci_hi # None
                 /\ \/ RLt(Zero, ci_lo[1]) /\ RLt(Zero, ci_hi[1])
                    \/ RLt(ci_lo[1], Zero) /\ RLt(ci_hi[1], Zero)
      pass_n == n >= min_n
  IN  [passes_q_threshold |-> Flag(pass_q_threshold),
       passes_q_lt_005 |-> Flag(pass_q_005),
       passes_q_lt_010 |-> Flag(pass_q_010),
       passes_ci_excludes_zero |-> Flag(pass_ci),
       passes_min_n |-> Flag(pass_n),
       evidence_tier |->
         tier_of(pass_q_threshold, pass_q_010, pass_ci, pass_n)]

tier_rank(tier) ==
  IF tier = "confirmatory" THEN 2 ELSE IF tier = "supportive" THEN 1 ELSE 0

(***************************************************************************)
(* SpecTier: a run fixes q_threshold and min_n and calls                   *)
(* _classify_evidence once per row; the last two calls are kept.           *)
(***************************************************************************)
QValsEv == {None} \cup {Some(Rat(v, 1)) :
              v \in {0, 49999, 50000, 99999, 100000, 199999, 200000}}
CIValsEv == {None, Some(Rat(0 - 1, 1)), Some(Rat(1, 1))}
QThresholdsEv == {Rat(STRICT_Q_DEFAULT, 1), Rat(SUPPORTIVE_Q_THRESHOLD, 1),
                  Rat(200000, 1)}

InitTier ==
  /\ ev_cfg \in [q_threshold : QThresholdsEv, min_n : 0..MaxN]
  /\ ev_prev = <<>>
  /\ ev_cur = <<>>
  /\ IdleBH
  /\ IdleEng
  /\ IdleCall

\* Two rows are classified: the guard stops after the second call.
ClassifyRow ==
  /\ ev_prev = <<>>
  /\ \E q \in QValsEv, lo \in CIValsEv, hi \in CIValsEv, n \in 0..MaxN :
       ev_cur' = [q |-> q, ci_lo |-> lo, ci_hi |-> hi, n |-> n,
                  out |-> classify_evidence(q, lo, hi, n, ev_cfg.q_threshold,
                                            ev_cfg.min_n)]
  /\ ev_prev' = ev_cur
  /\ UNCHANGED <<ev_cfg, bhVars, engVars, callVars>>

NextTier == ClassifyRow
SpecTier == InitTier /\ [][NextTier]_vars

(***************************************************************************)
(* Claims about _classify_evidence, checked under SpecTier.                *)
(***************************************************************************)
QNum(c) == c.q[1][1]
\* C4: the tier is confirmatory exactly when q is present, q < q_threshold and
\* n >= min_n; otherwise supportive exactly when q is present, q < 0.10 and
\* n >= min_n; otherwise exploratory (so a missing q or n < min_n gives
\* exploratory).
C4_TierRule ==
  ev_cur # <<>> =>
    LET conf == /\ ev_cur.q # None
                /\ QNum(ev_cur) < ev_cfg.q_threshold[1]
                /\ ev_cur.n >= ev_cfg.min_n
        supp == /\ ev_cur.q # None
                /\ QNum(ev_cur) < 100000
                /\ ev_cur.n >= ev_cfg.min_n
        tier == ev_cur.out.evidence_tier
    IN  /\ tier = "confirmatory" <=> conf
        /\ tier = "supportive" <=> (~conf /\ supp)
        /\ tier = "exploratory" <=> (~conf /\ ~supp)
        /\ (ev_cur.q = None \/ ev_cur.n < ev_cfg.min_n) => tier = "exploratory"

\* q in [0.05, 0.10) with enough observations: supportive, not confirmatory.
C4_Witness ==
  /\ ev_cur # <<>>
  /\ ev_cfg.q_threshold = Rat(STRICT_Q_DEFAULT, 1)
  /\ ev_cfg.min_n = 1
  /\ ev_cur.q = Some(Rat(50000, 1))
  /\ ev_cur.n = 1
  /\ ev_cur.out.evidence_tier = "supportive"
  /\ ev_prev # <<>>
  /\ ev_prev.q = ev_cur.q
  /\ ev_prev.n = 0
  /\ ev_prev.out.evidence_tier = "exploratory"

\* C5: two calls that agree on q, n, q_threshold and min_n but differ in the
\* confidence interval return the same tier; of the flags only
\* passes_ci_excludes_zero may differ.
C5_TierIgnoresCI ==
  (ev_cur # <<>> /\ ev_prev # <<>> /\ ev_cur.q = ev_prev.q
     /\ ev_cur.n = ev_prev.n) =>
    /\ ev_cur.out.evidence_tier = ev_prev.out.evidence_tier
    /\ [ev_cur.out EXCEPT !.passes_ci_excludes_zero = "-"] =
         [ev_prev.out EXCEPT !.passes_ci_excludes_zero = "-"]

\* Same q and n, one interval excludes zero and the other does not, and the
\* tier is confirmatory both times.
C5_Witness ==
  /\ ev_cur # <<>>
  /\ ev_prev # <<>>
  /\ ev_cur.q = ev_prev.q
  /\ ev_cur.n = ev_prev.n
  /\ ev_prev.out.passes_ci_excludes_zero = "1"
  /\ ev_cur.out.passes_ci_excludes_zero = "0"
  /\ ev_cur.ci_lo # None
  /\ ev_cur.out.evidence_tier = "confirmatory"
  /\ ev_prev.out.evidence_tier = "confirmatory"

\* C6: for the same n a lower q never gives a weaker tier, and for the same q
\* a larger n never gives a weaker tier (confirmatory 2 > supportive 1 >
\* exploratory 0), for every q_threshold, also above 0.10.
C6_TierMonotone ==
  (ev_cur # <<>> /\ ev_prev # <<>>) =>
    /\ (/\ ev_cur.n = ev_prev.n
        /\ ev_cur.q # None
        /\ ev_prev.q # None
        /\ QNum(ev_cur) <= QNum(ev_prev)) =>
         tier_rank(ev_cur.out.evidence_tier) >=
           tier_rank(ev_prev.out.evidence_tier)
    /\ (ev_cur.q = ev_prev.q /\ ev_cur.n >= ev_prev.n) =>
         tier_rank(ev_cur.out.evidence_tier) >=
           tier_rank(ev_prev.out.evidence_tier)

\* q_threshold 0.20 > 0.10: q = 0.199999 is confirmatory, and so is the lower
\* q = 0.05 that follows it.
C6_Witness ==
  /\ ev_cur # <<>>
  /\ ev_prev # <<>>
  /\ ev_cfg.q_threshold = Rat(200000, 1)
  /\ ev_cur.n = ev_prev.n
  /\ ev_prev.q = Some(Rat(199999, 1))
  /\ ev_cur.q = Some(Rat(50000, 1))
  /\ ev_prev.out.evidence_tier = "confirmatory"
  /\ ev_cur.out.evidence_tier = "confirmatory"

(***************************************************************************)
(* Exact arithmetic for the statistics.  The statistics are unit           *)
(* rationals <<num, den>> kept in lowest terms; ToMicro scales one for     *)
(* _fmt.                                                                   *)
(***************************************************************************)
Abs(n) == IF n < 0 THEN 0 - n ELSE n
RECURSIVE GCD(_, _)
GCD(a, b) == IF b = 0 THEN a ELSE GCD(b, a % b)
RNorm(x) ==
  LET g == GCD(Abs(x[1]), x[2])
  IN  IF g = 0 THEN x ELSE Rat(x[1] \div g, x[2] \div g)
RAdd(a, b) == RNorm(Rat(a[1] * b[2] + b[1] * a[2], a[2] * b[2]))
RSub(a, b) == RNorm(Rat(a[1] * b[2] - b[1] * a[2], a[2] * b[2]))
RMul(a, b) == RNorm(Rat(a[1] * b[1], a[2] * b[2]))
RDivInt(a, n) == RNorm(Rat(a[1], a[2] * n))
RAbs(a) == Rat(Abs(a[1]), a[2])
ToMicro(x) == Rat(x[1] * Micro, x[2])
fmt_unit(v, up) == IF v = None THEN EmptyCell ELSE fmt(Some(ToMicro(v[1])), up)

RECURSIVE RSum(_)
RSum(xs) == IF xs = <<>> THEN Zero ELSE RAdd(xs[1], RSum(Tail(xs)))

\* _mean: None for the empty list, else sum(xs) / len(xs).
mean(xs) == IF xs = <<>> THEN None ELSE Some(RDivInt(RSum(xs), Len(xs)))

\* _std_population squared: sum((x - mu) ** 2) / len(xs).  The square root is
\* not taken: the model carries the variance, from which the standard deviation
\* follows one to one.
variance_population(xs) ==
  IF xs = <<>> THEN None
  ELSE LET mu == mean(xs)[1]
           sq == [i \in 1..Len(xs) |-> RMul(RSub(xs[i], mu), RSub(xs[i], mu))]
       IN  Some(RDivInt(RSum(sq), Len(xs)))

(***************************************************************************)
(* _diff_d_minus_r (randomization.py 206-220).                             *)
(***************************************************************************)
RECURSIVE SumWhere(_, _, _)
SumWhere(values, labels, lab) ==
  IF values = <<>> THEN 0
  ELSE (IF labels[1] = lab THEN values[1] ELSE 0)
         + SumWhere(Tail(values), Tail(labels), lab)
CountWhere(labels, lab) == Cardinality({i \in 1..Len(labels) : labels[i] = lab})

\* Both sums divided by the number of values.
diff_d_minus_r_over_n(values, labels) ==
  LET n_d == CountWhere(labels, "D")
      n_r == CountWhere(labels, "R")
  IN  IF n_d = 0 \/ n_r = 0 THEN None
      ELSE Some(RSub(RNorm(Rat(SumWhere(values, labels, "D"), Len(values))),
                     RNorm(Rat(SumWhere(values, labels, "R"), Len(values)))))
diff_d_minus_r(values, labels) ==
  LET n_d == CountWhere(labels, "D")
      n_r == CountWhere(labels, "R")
  IN  IF n_d = 0 \/ n_r = 0 THEN None
      ELSE Some(RSub(RNorm(Rat(SumWhere(values, labels, "D"), n_d)),
                     RNorm(Rat(SumWhere(values, labels, "R"), n_r))))

(***************************************************************************)
(* _load_term_metric_groups (randomization.py 230-290).  A table row is    *)
(* [metric_id, party, value, term_start]; value and term_start are         *)
(* Optional.  Rows are grouped by (metric_id, party) in order of first     *)
(* appearance and the party groups of a metric are then concatenated.      *)
(***************************************************************************)
RowKept(row) == row.party \in {"D", "R"} /\ row.value # None

RECURSIVE group_keys(_)
\* The (metric_id, party) keys in dict insertion order.
group_keys(tbl) ==
  IF tbl = <<>> THEN <<>>
  ELSE LET rest == group_keys(SubSeq(tbl, 1, Len(tbl) - 1))
           row == tbl[Len(tbl)]
           k == <<row.metric_id, row.party>>
       IN  IF RowKept(row) /\ ~(\E j \in 1..Len(rest) : rest[j] = k)
           THEN Append(rest, k) ELSE rest

RECURSIVE obs_of_key(_, _)
obs_of_key(tbl, k) ==
  IF tbl = <<>> THEN <<>>
  ELSE (IF RowKept(tbl[1]) /\ <<tbl[1].metric_id, tbl[1].party>> = k
        THEN <<[value |-> tbl[1].value[1], party |-> tbl[1].party,
                term_start |-> tbl[1].term_start]>>
        ELSE <<>>) \o obs_of_key(Tail(tbl), k)

RECURSIVE obs_of_metric(_, _, _)
\* slot["obs"].extend(g["obs"]) over the keys of the metric, in key order.
obs_of_metric(tbl, keys, metric_id) ==
  IF keys = <<>> THEN <<>>
  ELSE (IF keys[1][1] = metric_id THEN obs_of_key(tbl, keys[1]) ELSE <<>>)
         \o obs_of_metric(tbl, Tail(keys), metric_id)

load_term_metric_groups(tbl) ==
  LET keys == group_keys(tbl)
      ids == {keys[j][1] : j \in 1..Len(keys)}
  IN  [m \in ids |-> obs_of_metric(tbl, keys, m)]

RECURSIVE SortedSeq(_)
\* sorted(): the ascending sequence of a set of integers.
SortedSeq(S) ==
  IF S = {} THEN <<>>
  ELSE LET lo == CHOOSE x \in S : \A y \in S : x <= y
       IN  <<lo>> \o SortedSeq(S \ {lo})

metric_order_by_load(grp, tbl) ==
  LET keys == group_keys(tbl)
      RECURSIVE firsts(_)
      firsts(ks) ==
        IF ks = <<>> THEN <<>>
        ELSE LET rest == firsts(SubSeq(ks, 1, Len(ks) - 1))
                 m == ks[Len(ks)][1]
             IN  IF \E j \in 1..Len(rest) : rest[j] = m THEN rest
                 ELSE Append(rest, m)
  IN  firsts(keys)
\* for metric_id in sorted(k[0] for k in groups.keys())
metric_order(grp, tbl) == SortedSeq(DOMAIN grp)

(***************************************************************************)
(* The blocks of a metric (randomization.py 368-381): block_to_idx as the  *)
(* sequence of its items [b, idxs] in dict insertion order.                *)
(***************************************************************************)
MinOf(S) == CHOOSE x \in S : \A y \in S : x <= y
MaxOf(S) == CHOOSE x \in S : \A y \in S : x >= y

block_key(obs, i, block_years) ==
  LET valid == {obs[j].term_start[1] :
                  j \in {n \in 1..Len(obs) : obs[n].term_start # None}}
      anchor == IF valid = {} THEN 0 ELSE MinOf(valid)
  IN  IF obs[i].term_start = None THEN 0 - 1
      ELSE (obs[i].term_start[1] - anchor) \div block_years

RECURSIVE blocks_upto(_, _, _)
\* block_to_idx.setdefault(b, []).append(i) for i in 0..n-1.
blocks_upto(obs, n, block_years) ==
  IF n = 0 THEN <<>>
  ELSE LET prev == blocks_upto(obs, n - 1, block_years)
           b == block_key(obs, n, block_years)
       IN  IF \E j \in 1..Len(prev) : prev[j].b = b
           THEN [j \in 1..Len(prev) |->
                   IF prev[j].b = b
                   THEN [prev[j] EXCEPT !.idxs = Append(@, n)]
                   ELSE prev[j]]
           ELSE Append(prev, [b |-> b, idxs |-> <<n>>])

RECURSIVE sort_blocks(_)
sort_blocks(blocks) ==
  IF blocks = <<>> THEN <<>>
  ELSE LET lo == CHOOSE j \in 1..Len(blocks) :
                   \A i \in 1..Len(blocks) : blocks[j].b <= blocks[i].b
       IN  <<blocks[lo]>>
             \o sort_blocks([i \in 1..(Len(blocks) - 1) |->
                               IF i < lo THEN blocks[i] ELSE blocks[i + 1]])

block_to_idx_sorted(obs, block_years) ==
  IF block_years > 0 THEN sort_blocks(blocks_upto(obs, Len(obs), block_years))
  ELSE <<[b |-> 0, idxs |-> [i \in 1..Len(obs) |-> i]]>>
block_to_idx_global(obs, block_years) ==
  <<[b |-> 0, idxs |-> [i \in 1..Len(obs) |-> i]]>>
\* The items of block_to_idx in the order block_to_idx.values() yields them.
block_to_idx_of(obs, block_years) ==
  IF block_years > 0 THEN blocks_upto(obs, Len(obs), block_years)
  ELSE <<[b |-> 0, idxs |-> [i \in 1..Len(obs) |-> i]]>>

(***************************************************************************)
(* random.Random.  A generator is [seed, pos]: pos counts the calls of     *)
(* randbelow made on it.  The stream of a seed is fixed but unknown: the   *)
(* tape of a seed holds the outcomes already produced, so that a generator *)
(* built again from the same seed replays them.  An outcome drawn for n is *)
(* read back modulo n' by a call that asks for n'.                         *)
(***************************************************************************)
\* rng.shuffle(x) calls randbelow(i + 1) for i = len(x) - 1 down to 1.
shuffle_args(n) == [t \in 1..(IF n = 0 THEN 0 ELSE n - 1) |-> n + 1 - t]

RECURSIVE shuffle_steps(_, _, _)
\* x[i], x[j] = x[j], x[i] with j = r[t], i = len(x) - t (0-indexed).
shuffle_steps(x, r, t) ==
  IF t > Len(r) THEN x
  ELSE LET i == Len(x) - t + 1
           j == r[t] + 1
       IN  shuffle_steps([x EXCEPT ![i] = x[j], ![j] = x[i]], r, t + 1)
\* Elements drawn with replacement instead of exchanged.
shuffle_with_replacement(x, r) ==
  [i \in 1..Len(x) |-> IF i = 1 THEN x[1] ELSE x[r[i - 1] + 1]]
shuffle(x, r) == shuffle_steps(x, r, 1)

\* The outcomes the next Len(ns) calls on generator g can have.
draw_outcomes(tp, g, ns) ==
  {r \in [1..Len(ns) -> 0..(MaxOf({ns[i] : i \in 1..Len(ns)} \cup {1}) - 1)] :
     \A i \in 1..Len(ns) :
       /\ r[i] < ns[i]
       /\ g.pos + i <= Len(tp[g.seed]) => r[i] = tp[g.seed][g.pos + i] % ns[i]}

\* The tape after the calls: outcomes beyond its end are appended.
tape_after(tp, g, r) ==
  [tp EXCEPT ![g.seed] =
     @ \o [i \in 1..(IF g.pos + Len(r) > Len(@)
                     THEN g.pos + Len(r) - Len(@) ELSE 0) |->
             r[Len(@) - g.pos + i]]]

advance(g, n) == [g EXCEPT !.pos = @ + n]

(***************************************************************************)
(* _percentile and _bootstrap_diff_d_minus_r (randomization.py 84-119).    *)
(***************************************************************************)
RInsert(s, x) ==
  LET k == Cardinality({j \in 1..Len(s) : RLe(s[j], x)})
  IN  SubSeq(s, 1, k) \o <<x>> \o SubSeq(s, k + 1, Len(s))
RECURSIVE RSorted(_)
RSorted(xs) ==
  IF xs = <<>> THEN <<>>
  ELSE RInsert(RSorted(SubSeq(xs, 1, Len(xs) - 1)), xs[Len(xs)])

\* max(0.0, min(1.0, q)) of a rational q.
clamp_unit(q) ==
  IF q[1] < 0 THEN Rat(0, 1) ELSE IF q[1] > q[2] THEN Rat(1, 1) ELSE q

percentile_unsorted(xs, q) ==
  IF xs = <<>> THEN None
  ELSE LET ys == xs
           c == clamp_unit(q)
           pn == c[1] * (Len(ys) - 1)
           lo == pn \div c[2]
           hi == IF pn % c[2] = 0 THEN lo ELSE lo + 1
           w == Rat(pn % c[2], c[2])
       IN  IF Len(ys) = 1 THEN Some(ys[1])
           ELSE IF lo = hi THEN Some(ys[lo + 1])
           ELSE Some(RAdd(RMul(ys[lo + 1], RSub(Rat(1, 1), w)),
                          RMul(ys[hi + 1], w)))

\* p = clamp(q) * (len(ys) - 1), lo = floor(p), hi = ceil(p), w = p - lo.
percentile(xs, q) ==
  IF xs = <<>> THEN None
  ELSE LET ys == RSorted(xs)
           c == clamp_unit(q)
           pn == c[1] * (Len(ys) - 1)
           lo == pn \div c[2]
           hi == IF pn % c[2] = 0 THEN lo ELSE lo + 1
           w == Rat(pn % c[2], c[2])
       IN  IF Len(ys) = 1 THEN Some(ys[1])
           ELSE IF lo = hi THEN Some(ys[lo + 1])
           ELSE Some(RAdd(RMul(ys[lo + 1], RSub(Rat(1, 1), w)),
                          RMul(ys[hi + 1], w)))

Q025 == Rat(1, 40)
Q975 == Rat(39, 40)

\* The arguments of the randrange calls of the bootstrap: per sample nd calls
\* of randrange(nd), then nr calls of randrange(nr).
bootstrap_args(nd, nr, n_samples) ==
  IF nd = 0 \/ nr = 0 \/ n_samples <= 0 THEN <<>>
  ELSE [i \in 1..(n_samples * (nd + nr)) |->
          IF ((i - 1) % (nd + nr)) < nd THEN nd ELSE nr]

bootstrap_diff_d_minus_r(d_vals, r_vals, n_samples, r) ==
  IF d_vals = <<>> \/ r_vals = <<>> \/ n_samples <= 0 THEN <<None, None>>
  ELSE LET nd == Len(d_vals)
           nr == Len(r_vals)
           stat(s) ==
             LET base == (s - 1) * (nd + nr)
                 d_s == [i \in 1..nd |-> Rat(d_vals[r[base + i] + 1], 1)]
                 r_s == [i \in 1..nr |-> Rat(r_vals[r[base + nd + i] + 1], 1)]
             IN  RSub(mean(d_s)[1], mean(r_s)[1])
           stats == [s \in 1..n_samples |-> stat(s)]
       IN  <<percentile(stats, Q025), percentile(stats, Q975)>>

(***************************************************************************)
(* _compute_term_party_permutation (randomization.py 293-468).             *)
(***************************************************************************)
Obs == groups[metric]
Values(obs) == [i \in 1..Len(obs) |-> obs[i].value]
Labels(obs) == [i \in 1..Len(obs) |-> obs[i].party]
PickValues(obs, lab) ==
  LET RECURSIVE pick(_)
      pick(i) == IF i > Len(obs) THEN <<>>
                 ELSE (IF obs[i].party = lab THEN <<obs[i].value>> ELSE <<>>)
                        \o pick(i + 1)
  IN  pick(1)

bootstrap_generator_shared(perm_g, boot_g) == perm_g
\* rng=boot_rng in the call of the bootstrap: the generator it draws from.
bootstrap_generator(perm_g, boot_g) == boot_g

\* The generator g after n calls were made on the generator named by `used`.
drawn_from(g, used, n) == IF g.seed = used.seed THEN advance(g, n) ELSE g

labels_carried(labels, left) == left
\* perm_labels = list(labels): a new list at the start of every iteration,
\* whatever the iteration before left in perm_labels.
labels_copy(labels, left) == labels

new_rng_carry(seed, old) ==
  IF old # <<>> /\ old.seed = seed THEN old ELSE [seed |-> seed, pos |-> 0]
\* random.Random(seed): a generator at the start of the seed's stream,
\* whatever generator the name was bound to before.
new_rng(seed, old) == [seed |-> seed, pos |-> 0]

BootSeedOffsetTerm == 1000003

permutes_any_group(obs) == cfg.permutations > 0

\* if observed is not None and n_d > 0 and n_r > 0 and permutations > 0
permutes(obs) ==
  /\ diff_d_minus_r(Values(obs), Labels(obs)) # None
  /\ CountWhere(Labels(obs), "D") > 0
  /\ CountWhere(Labels(obs), "R") > 0
  /\ cfg.permutations > 0

p_two_sided_no_add_one(observed, diffs) ==
  IF observed = None \/ diffs = <<>> THEN None
  ELSE Some(RNorm(Rat(
         Cardinality({i \in 1..Len(diffs) :
                        RLe(RAbs(observed[1]), RAbs(diffs[i]))}),
         Len(diffs))))
\* extreme = sum(1 for d in perm_diffs if abs(d) >= abs(observed));
\* p_two = (1 + extreme) / (1 + len(perm_diffs))
p_two_sided(observed, diffs) ==
  IF observed = None \/ diffs = <<>> THEN None
  ELSE Some(RNorm(Rat(
         1 + Cardinality({i \in 1..Len(diffs) :
                            RLe(RAbs(observed[1]), RAbs(diffs[i]))}),
         1 + Len(diffs))))

\* z = (observed - perm_mean) / perm_std when perm_std > 0, carried as
\* sign(z) * z^2 = sign * (observed - perm_mean)^2 / variance.
z_score(observed, diffs) ==
  LET mu == mean(diffs)
      var == variance_population(diffs)
  IN  IF observed = None \/ mu = None \/ var = None THEN None
      ELSE IF ~RLt(Zero, var[1]) THEN None
      ELSE LET d == RSub(observed[1], mu[1])
               sq == RMul(d, d)
               z2 == RNorm(Rat(sq[1] * var[1][2], sq[2] * var[1][1]))
           IN  Some(IF d[1] < 0 THEN Rat(0 - z2[1], z2[2]) ELSE z2)

IntCell(n) == [k |-> "int", v |-> n]

\* rows.append({...}) of the metric loop: the statistics of one metric.
metric_row(obs, diffs, ci) ==
  LET observed == diff_d_minus_r(Values(obs), Labels(obs))
      years == {obs[j].term_start[1] :
                  j \in {n \in 1..Len(obs) : obs[n].term_start # None}}
  IN  [metric_id |-> metric,
       n_obs |-> IntCell(Len(obs)),
       n_d |-> IntCell(CountWhere(Labels(obs), "D")),
       n_r |-> IntCell(CountWhere(Labels(obs), "R")),
       observed_diff_d_minus_r |-> fmt_unit(observed, {}),
       perm_mean |-> fmt_unit(mean(diffs), {}),
       perm_std |-> variance_population(diffs),
       z_score |-> z_score(observed, diffs),
       bootstrap_ci95_low |-> fmt_unit(ci[1], {}),
       bootstrap_ci95_high |-> fmt_unit(ci[2], {}),
       p |-> fmt_unit(p_two_sided(observed, diffs), {}),
       q |-> UnsetCell,
       evidence |-> <<>>,
       permutations |-> cfg.permutations,
       bootstrap_samples |-> cfg.bootstrap_samples,
       seed |-> cfg.seed,
       block_years |-> cfg.block_years,
       min_term_start_year |->
         IF years = {} THEN EmptyCell ELSE IntCell(MinOf(years)),
       max_term_start_year |->
         IF years = {} THEN EmptyCell ELSE IntCell(MaxOf(years))]

\* The second loop over rows: q, the CI and n are read back from the cells.
classify_rows(rs) ==
  [i \in 1..Len(rs) |->
     [rs[i] EXCEPT !.evidence =
        classify_evidence(parse_float(rs[i].q),
                          parse_float(rs[i].bootstrap_ci95_low),
                          parse_float(rs[i].bootstrap_ci95_high),
                          rs[i].n_obs.v, cfg.q_threshold, cfg.min_n_obs)]]

Recording == run < cfg.runs

\* The same float is rendered the same way in every run: the roundings a
\* call can make of the half-way values with the floors fs, given those
\* already made, and the record after the call.
roundings(t, fs) ==
  {up \in SUBSET fs : \A f \in fs \cap t.seen : f \in up <=> f \in t.up}
ties_after(t, fs, up) == [seen |-> t.seen \cup fs, up |-> t.up \cup up]

Load ==
  /\ pc = "start"
  /\ cfg.pass = "term"
  /\ groups' = load_term_metric_groups(table)
  /\ todo' = metric_order(groups', table)
  /\ rng' = new_rng(cfg.seed, rng)
  /\ boot_rng' = new_rng(cfg.seed + BootSeedOffsetTerm, boot_rng)
  /\ rows' = <<>>
  /\ pc' = "metric"
  /\ UNCHANGED <<table, cfg, run, metric, block_to_idx, perm_labels, blk,
                 shuffled, it, perm_diffs, tape, out_csv, prev_out, bhVars,
                 evVars, winVars, ties, callVars>>

NextMetric ==
  /\ pc = "metric"
  /\ todo # <<>>
  /\ metric' = Head(todo)
  /\ todo' = Tail(todo)
  /\ perm_diffs' = <<>>
  /\ it' = 0
  /\ blk' = 0
  /\ shuffled' = <<>>
  /\ perm_labels' = Labels(groups[Head(todo)])
  /\ IF permutes(groups[Head(todo)])
     THEN /\ block_to_idx' = block_to_idx_of(groups[Head(todo)],
                                             cfg.block_years)
          /\ pc' = "perm"
     ELSE /\ block_to_idx' = <<>>
          /\ pc' = "stats"
  /\ UNCHANGED <<table, cfg, run, groups, rng, boot_rng, tape, rows, out_csv,
                 prev_out, bhVars, evVars, winVars, ties, callVars>>

\* sub = [perm_labels[i] for i in idxs]; rng.shuffle(sub); write sub back.
ShuffleBlock ==
  /\ pc = "perm"
  /\ blk < Len(block_to_idx)
  /\ LET idxs == block_to_idx[blk + 1].idxs
         sub == [j \in 1..Len(idxs) |-> perm_labels[idxs[j]]]
         ns == shuffle_args(Len(sub))
     IN  \E r \in draw_outcomes(tape, rng, ns) :
           LET sh == shuffle(sub, r)
           IN  /\ perm_labels' =
                    [i \in 1..Len(perm_labels) |->
                       IF \E j \in 1..Len(idxs) : idxs[j] = i
                       THEN sh[CHOOSE j \in 1..Len(idxs) : idxs[j] = i]
                       ELSE perm_labels[i]]
               /\ tape' = IF Recording THEN tape_after(tape, rng, r) ELSE tape
               /\ rng' = advance(rng, Len(ns))
  /\ shuffled' = Append(shuffled, block_to_idx[blk + 1].b)
  /\ blk' = blk + 1
  /\ UNCHANGED <<table, cfg, pc, run, groups, todo, metric, block_to_idx, it,
                 perm_diffs, boot_rng, rows, out_csv, prev_out, bhVars,
                 evVars, winVars, ties, callVars>>

\* d = _diff_d_minus_r(values, perm_labels); the next iteration starts from
\* perm_labels = list(labels).
EndPermutation ==
  /\ pc = "perm"
  /\ blk = Len(block_to_idx)
  /\ LET d == diff_d_minus_r(Values(Obs), perm_labels)
     IN  perm_diffs' = IF d = None THEN perm_diffs ELSE Append(perm_diffs, d[1])
  /\ it' = it + 1
  /\ IF it + 1 < cfg.permutations
     THEN /\ perm_labels' = labels_copy(Labels(Obs), perm_labels)
          /\ blk' = 0
          /\ shuffled' = <<>>
          /\ pc' = "perm"
     ELSE /\ UNCHANGED <<perm_labels, blk, shuffled>>
          /\ pc' = "stats"
  /\ UNCHANGED <<table, cfg, run, groups, todo, metric, block_to_idx, rng,
                 boot_rng, tape, rows, out_csv, prev_out, bhVars, evVars, winVars, ties, callVars>>

\* The statistics, the bootstrap interval and the row of the metric.
FinishMetric ==
  /\ pc = "stats"
  /\ LET d_vals == PickValues(Obs, "D")
         r_vals == PickValues(Obs, "R")
         n_samples == IF cfg.bootstrap_samples > 0 THEN cfg.bootstrap_samples
                      ELSE 0
         ns == bootstrap_args(Len(d_vals), Len(r_vals), n_samples)
         g == bootstrap_generator(rng, boot_rng)
     IN  \E r \in draw_outcomes(tape, g, ns) :
           /\ rows' = Append(rows,
                metric_row(Obs, perm_diffs,
                           bootstrap_diff_d_minus_r(d_vals, r_vals,
                                                    n_samples, r)))
           /\ tape' = IF Recording THEN tape_after(tape, g, r) ELSE tape
           /\ boot_rng' = drawn_from(boot_rng, g, Len(ns))
           /\ rng' = drawn_from(rng, g, Len(ns))
  /\ pc' = "metric"
  /\ UNCHANGED <<table, cfg, run, groups, todo, metric, block_to_idx,
                 perm_labels, blk, shuffled, it, perm_diffs, out_csv,
                 prev_out, bhVars, evVars, winVars, ties, callVars>>

\* _add_bh_q_values over all rows, the tiers, and the output file.
FinishRun ==
  /\ pc = "metric"
  /\ todo = <<>>
  /\ \E up \in roundings(ties, bh_tie_floors(rows)) :
       /\ rows' = classify_rows(add_bh_q_values(rows, up))
       /\ ties' = IF Recording THEN ties_after(ties, bh_tie_floors(rows), up)
                  ELSE ties
  /\ out_csv' = rows'
  /\ pc' = "done"
  /\ UNCHANGED <<table, cfg, run, groups, todo, metric, block_to_idx,
                 perm_labels, blk, shuffled, it, perm_diffs, rng, boot_rng,
                 tape, prev_out, bhVars, evVars, winVars, callVars>>

\* The command is run again on the same table with the same parameters: a
\* new process, in which only the output file and the streams of the seeds
\* are what they were.
Rerun ==
  /\ pc = "done"
  /\ run < cfg.runs
  /\ run' = run + 1
  /\ prev_out' = out_csv
  /\ pc' = "start"
  /\ groups' = <<>>
  /\ todo' = <<>>
  /\ metric' = 0
  /\ block_to_idx' = <<>>
  /\ perm_labels' = <<>>
  /\ blk' = 0
  /\ shuffled' = <<>>
  /\ it' = 0
  /\ perm_diffs' = <<>>
  /\ rows' = <<>>
  /\ term_items' = <<>>
  /\ ti' = 0
  /\ flags' = <<>>
  /\ ds' = <<>>
  /\ perm_stats' = <<>>
  /\ UNCHANGED <<table, cfg, rng, boot_rng, tape, out_csv, window_labels,
                 ties, bhVars, evVars, callVars>>

(***************************************************************************)
(* The within-president pass: _compute_unified_within_term_permutation     *)
(* (randomization.py 471-716).  A row of the window-metrics CSV is         *)
(* [metric_id, term_id, value], a row of the window-labels CSV is          *)
(* [window_id, president_term_id, pres_party, unified_government,          *)
(* window_days]; the id 0 stands for the empty string.                     *)
(***************************************************************************)
BootSeedOffsetWithin == 2000003

\* labels.get(wid): out[wid] = {...} keeps the last row of a window id.
window_label(wl, wid) ==
  LET at == {i \in 1..Len(wl) : wl[i].window_id = wid}
  IN  IF wid = 0 \/ at = {} THEN None ELSE Some(wl[MaxOf(at)])

\* The `continue` filters of the row loop.
WRowKept(row, wl) ==
  LET lab == window_label(wl, row.term_id)
  IN  /\ row.metric_id # 0
      /\ lab # None
      /\ lab[1].pres_party \in {"D", "R"}
      /\ lab[1].window_days >= cfg.min_window_days
      /\ lab[1].president_term_id # 0
      /\ row.value # None

w_group_keys(tbl, wl) ==
  {<<tbl[i].metric_id, window_label(wl, tbl[i].term_id)[1].pres_party>> :
     i \in {n \in 1..Len(tbl) : WRowKept(tbl[n], wl)}}

RECURSIVE terms_upto(_, _, _, _)
\* terms.setdefault(pres_term_id, []).append(_WindowObs(...)) for the rows
\* of group k among the first n rows: the items [id, entries] in dict order.
terms_upto(tbl, wl, k, n) ==
  IF n = 0 THEN <<>>
  ELSE LET prev == terms_upto(tbl, wl, k, n - 1)
       IN  IF ~WRowKept(tbl[n], wl) THEN prev
           ELSE LET lab == window_label(wl, tbl[n].term_id)[1]
                    e == [value |-> tbl[n].value[1],
                          unified |-> lab.unified_government,
                          days |-> lab.window_days]
                    id == lab.president_term_id
                IN  IF <<tbl[n].metric_id, lab.pres_party>> # k THEN prev
                    ELSE IF \E j \in 1..Len(prev) : prev[j].id = id
                    THEN [j \in 1..Len(prev) |->
                            IF prev[j].id = id
                            THEN [prev[j] EXCEPT !.entries = Append(@, e)]
                            ELSE prev[j]]
                    ELSE Append(prev, [id |-> id, entries |-> <<e>>])

load_window_groups(tbl, wl) ==
  [k \in w_group_keys(tbl, wl) |-> terms_upto(tbl, wl, k, Len(tbl))]

KeyLt(a, b) == a[1] < b[1] \/ (a[1] = b[1] /\ a[2] = "D" /\ b[2] = "R")
RECURSIVE SortedKeys(_)
\* sorted(groups.keys(), key=lambda x: (x[0], x[1]))
SortedKeys(S) ==
  IF S = {} THEN <<>>
  ELSE LET lo == CHOOSE a \in S : \A b \in S : a = b \/ KeyLt(a, b)
       IN  <<lo>> \o SortedKeys(S \ {lo})

RECURSIVE ISum(_)
ISum(xs) == IF xs = <<>> THEN 0 ELSE xs[1] + ISum(Tail(xs))

\* xs is a list of (value, days).
weighted_or_unweighted_mean(xs) ==
  IF xs = <<>> THEN None
  ELSE LET w_sum == ISum([i \in 1..Len(xs) |->
                            IF xs[i][2] > 0 THEN xs[i][1] * xs[i][2] ELSE 0])
           w == ISum([i \in 1..Len(xs) |->
                        IF xs[i][2] > 0 THEN xs[i][2] ELSE 0])
       IN  IF w > 0 THEN Some(RNorm(Rat(w_sum, w)))
           ELSE mean([i \in 1..Len(xs) |-> Rat(xs[i][1], 1)])

RECURSIVE entries_with(_, _, _, _)
\* [(e.value, e.days) for e, f in zip(entries, flags) if f == flag]
entries_with(entries, fl, flag, i) ==
  IF i > Len(entries) \/ i > Len(fl) THEN <<>>
  ELSE (IF fl[i] = flag
        THEN <<<<entries[i].value, entries[i].days>>>> ELSE <<>>)
         \o entries_with(entries, fl, flag, i + 1)

\* A side without windows counted as a mean of 0.
term_delta_zero_fill(entries, fl) ==
  LET mu_u == weighted_or_unweighted_mean(entries_with(entries, fl, 1, 1))
      mu_d == weighted_or_unweighted_mean(entries_with(entries, fl, 0, 1))
  IN  Some(RSub(IF mu_u = None THEN Zero ELSE mu_u[1],
                IF mu_d = None THEN Zero ELSE mu_d[1]))
term_delta_from_entries(entries, fl) ==
  LET mu_u == weighted_or_unweighted_mean(entries_with(entries, fl, 1, 1))
      mu_d == weighted_or_unweighted_mean(entries_with(entries, fl, 0, 1))
  IN  IF mu_u = None \/ mu_d = None THEN None
      ELSE Some(RSub(mu_u[1], mu_d[1]))

Flags(entries) == [i \in 1..Len(entries) |-> entries[i].unified]

RECURSIVE observed_term_deltas(_)
\* The deltas of the terms that have both kinds of window, in dict order.
observed_term_deltas(terms) ==
  IF terms = <<>> THEN <<>>
  ELSE LET d == term_delta_from_entries(terms[1].entries,
                                        Flags(terms[1].entries))
       IN  (IF d = None THEN <<>> ELSE <<d[1]>>)
             \o observed_term_deltas(Tail(terms))

median(xs) ==
  IF xs = <<>> THEN None
  ELSE LET ys == RSorted(xs)
           n == Len(ys)
       IN  IF n % 2 = 1 THEN Some(ys[(n \div 2) + 1])
           ELSE Some(RMul(Rat(1, 2), RAdd(ys[n \div 2], ys[(n \div 2) + 1])))

\* The arguments of the randrange calls of _bootstrap_mean_ci.
bootstrap_mean_args(n, n_samples) ==
  IF n = 0 \/ n_samples <= 0 THEN <<>>
  ELSE [i \in 1..(n_samples * n) |-> n]

bootstrap_mean_ci(values, n_samples, r) ==
  IF values = <<>> \/ n_samples <= 0 THEN <<None, None>>
  ELSE LET n == Len(values)
           stats == [s \in 1..n_samples |->
                       mean([i \in 1..n |-> values[r[(s - 1) * n + i] + 1]])[1]]
       IN  <<percentile(stats, Q025), percentile(stats, Q975)>>

\* rows.append({...}) of the group loop.
within_row(key, deltas, stats, ci) ==
  LET observed_mean == mean(deltas)
  IN  [metric_id |-> key[1],
       pres_party |-> key[2],
       observed_mean_delta_unified_minus_divided |-> fmt_unit(observed_mean, {}),
       observed_median_delta_unified_minus_divided |->
         fmt_unit(median(deltas), {}),
       n_presidents_with_both |-> IntCell(Len(deltas)),
       perm_mean |-> fmt_unit(mean(stats), {}),
       perm_std |-> variance_population(stats),
       z_score |-> z_score(observed_mean, stats),
       bootstrap_ci95_low |-> fmt_unit(ci[1], {}),
       bootstrap_ci95_high |-> fmt_unit(ci[2], {}),
       p |-> fmt_unit(p_two_sided(observed_mean, stats), {}),
       q |-> UnsetCell,
       evidence |-> <<>>,
       permutations |-> cfg.permutations,
       bootstrap_samples |-> cfg.bootstrap_samples,
       seed |-> cfg.seed,
       min_window_days_filter |-> cfg.min_window_days]

w_classify_rows(rs) ==
  [i \in 1..Len(rs) |->
     [rs[i] EXCEPT !.evidence =
        classify_evidence(parse_float(rs[i].q),
                          parse_float(rs[i].bootstrap_ci95_low),
                          parse_float(rs[i].bootstrap_ci95_high),
                          rs[i].n_presidents_with_both.v, cfg.q_threshold,
                          cfg.min_n_within_both)]]

WLoad ==
  /\ pc = "start"
  /\ cfg.pass = "within"
  /\ groups' = load_window_groups(table, window_labels)
  /\ todo' = SortedKeys(DOMAIN groups')
  /\ rng' = new_rng(cfg.seed, rng)
  /\ boot_rng' = new_rng(cfg.seed + BootSeedOffsetWithin, boot_rng)
  /\ rows' = <<>>
  /\ pc' = "w_metric"
  /\ UNCHANGED <<table, cfg, run, metric, block_to_idx, perm_labels, blk,
                 shuffled, it, perm_diffs, tape, out_csv, prev_out, winVars,
                 ties, bhVars, evVars, callVars>>

WNextGroup ==
  /\ pc = "w_metric"
  /\ todo # <<>>
  /\ metric' = Head(todo)
  /\ todo' = Tail(todo)
  /\ perm_stats' = <<>>
  /\ it' = 0
  /\ ti' = 0
  /\ flags' = <<>>
  /\ ds' = <<>>
  /\ LET deltas == observed_term_deltas(groups[Head(todo)])
     IN  IF mean(deltas) # None /\ cfg.permutations > 0 /\ Len(deltas) > 0
         THEN /\ term_items' = groups[Head(todo)]
              /\ pc' = "w_perm"
         ELSE /\ term_items' = <<>>
              /\ pc' = "w_stats"
  /\ UNCHANGED <<table, cfg, run, groups, block_to_idx, perm_labels, blk,
                 shuffled, perm_diffs, rng, boot_rng, tape, rows, out_csv,
                 prev_out, window_labels, ties, bhVars, evVars, callVars>>

\* flags = [e.unified for e in entries]; rng.shuffle(flags); the delta of
\* the term under the shuffled flags joins ds when it is defined.
WShuffleTerm ==
  /\ pc = "w_perm"
  /\ ti < Len(term_items)
  /\ LET entries == term_items[ti + 1].entries
         ns == shuffle_args(Len(entries))
     IN  \E r \in draw_outcomes(tape, rng, ns) :
           LET sh == shuffle(Flags(entries), r)
               d == term_delta_from_entries(entries, sh)
           IN  /\ flags' = sh
               /\ ds' = IF d = None THEN ds ELSE Append(ds, d[1])
               /\ tape' = IF Recording THEN tape_after(tape, rng, r) ELSE tape
               /\ rng' = advance(rng, Len(ns))
  /\ ti' = ti + 1
  /\ UNCHANGED <<table, cfg, pc, run, groups, todo, metric, block_to_idx,
                 perm_labels, blk, shuffled, it, perm_diffs, boot_rng, rows,
                 out_csv, prev_out, window_labels, term_items, perm_stats,
                 ties, bhVars, evVars, callVars>>

\* m = _mean(ds) joins perm_stats when it is defined.
WEndPermutation ==
  /\ pc = "w_perm"
  /\ ti = Len(term_items)
  /\ LET m == mean(ds)
     IN  perm_stats' = IF m = None THEN perm_stats ELSE Append(perm_stats, m[1])
  /\ it' = it + 1
  /\ IF it + 1 < cfg.permutations
     THEN /\ ds' = <<>>
          /\ ti' = 0
          /\ pc' = "w_perm"
     ELSE /\ UNCHANGED <<ds, ti>>
          /\ pc' = "w_stats"
  /\ UNCHANGED <<table, cfg, run, groups, todo, metric, block_to_idx,
                 perm_labels, blk, shuffled, perm_diffs, rng, boot_rng, tape,
                 rows, out_csv, prev_out, window_labels, term_items, flags,
                 ties, bhVars, evVars, callVars>>

WFinishGroup ==
  /\ pc = "w_stats"
  /\ LET deltas == observed_term_deltas(groups[metric])
         n_samples == IF cfg.bootstrap_samples > 0 THEN cfg.bootstrap_samples
                      ELSE 0
         ns == bootstrap_mean_args(Len(deltas), n_samples)
         g == bootstrap_generator(rng, boot_rng)
     IN  \E r \in draw_outcomes(tape, g, ns) :
           /\ rows' = Append(rows,
                within_row(metric, deltas, perm_stats,
                           bootstrap_mean_ci(deltas, n_samples, r)))
           /\ tape' = IF Recording THEN tape_after(tape, g, r) ELSE tape
           /\ boot_rng' = drawn_from(boot_rng, g, Len(ns))
           /\ rng' = drawn_from(rng, g, Len(ns))
  /\ pc' = "w_metric"
  /\ UNCHANGED <<table, cfg, run, groups, todo, metric, block_to_idx,
                 perm_labels, blk, shuffled, it, perm_diffs, out_csv,
                 prev_out, winVars, ties, bhVars, evVars, callVars>>

WFinishRun ==
  /\ pc = "w_metric"
  /\ todo = <<>>
  /\ \E up \in roundings(ties, bh_tie_floors(rows)) :
       /\ rows' = w_classify_rows(add_bh_q_values(rows, up))
       /\ ties' = IF Recording THEN ties_after(ties, bh_tie_floors(rows), up)
                  ELSE ties
  /\ out_csv' = rows'
  /\ pc' = "done"
  /\ UNCHANGED <<table, cfg, run, groups, todo, metric, block_to_idx,
                 perm_labels, blk, shuffled, it, perm_diffs, rng, boot_rng,
                 tape, prev_out, winVars, bhVars, evVars, callVars>>

(***************************************************************************)
(* SpecPerm: one run of the term-level pass on every table of one metric   *)
(* with at most MaxObs rows, for every permutation count up to MaxPerms    *)
(* and every block size up to MaxBlockYears.  The tables are of two kinds: *)
(* all terms in one year with every combination of values, or every        *)
(* combination of term years (also missing) with all values equal.         *)
(***************************************************************************)
Parties == {"D", "R"}
ValuesPerm == {0, 1}
YearsPerm == {None, Some(0), Some(2)}

TablesPerm ==
  UNION {
    {[i \in 1..n |-> [metric_id |-> 1, party |-> f[i][1],
                      value |-> Some(f[i][2]), term_start |-> Some(0)]] :
       f \in [1..n -> Parties \X ValuesPerm]}
    \cup
    {[i \in 1..n |-> [metric_id |-> 1, party |-> f[i][1],
                      value |-> Some(0), term_start |-> f[i][2]]] :
       f \in [1..n -> Parties \X YearsPerm]} : n \in 1..MaxObs}

InitEngine(tbl, wl, c) ==
  /\ table = tbl
  /\ cfg = c
  /\ pc = "start"
  /\ run = 1
  /\ groups = <<>>
  /\ todo = <<>>
  /\ metric = 0
  /\ block_to_idx = <<>>
  /\ perm_labels = <<>>
  /\ blk = 0
  /\ shuffled = <<>>
  /\ it = 0
  /\ perm_diffs = <<>>
  /\ rng = <<>>
  /\ boot_rng = <<>>
  /\ tape = [sd \in {c.seed,
                      c.seed + (IF c.pass = "within" THEN BootSeedOffsetWithin
                                ELSE BootSeedOffsetTerm)} |-> <<>>]
  /\ rows = <<>>
  /\ out_csv = <<>>
  /\ prev_out = <<>>
  /\ window_labels = wl
  /\ term_items = <<>>
  /\ ti = 0
  /\ flags = <<>>
  /\ ds = <<>>
  /\ perm_stats = <<>>
  /\ ties = [seen |-> {}, up |-> {}]
  /\ IdleBH
  /\ IdleEv
  /\ IdleCall

InitPerm ==
  \E tbl \in TablesPerm, n \in 0..MaxPerms, by \in 0..MaxBlockYears :
    InitEngine(tbl, <<>>, [pass |-> "term", permutations |-> n,
                           seed |-> DefaultSeed,
                           block_years |-> by, bootstrap_samples |-> 0,
                           q_threshold |-> Rat(STRICT_Q_DEFAULT, 1),
                           min_n_obs |-> 2, runs |-> 1])

NextPerm ==
  \/ Load
  \/ NextMetric
  \/ ShuffleBlock
  \/ EndPermutation
  \/ FinishMetric
  \/ FinishRun
SpecPerm == InitPerm /\ [][NextPerm]_vars

(***************************************************************************)
(* SpecRun: the command is run twice on the same files with the same       *)
(* parameters, for either pass.  The CSV files are the sub-lists of a      *)
(* fixed list of rows: two metrics of the term-level pass, one with terms  *)
(* of both parties in two blocks; two groups of the within-president pass, *)
(* one with two presidents, besides rows the loaders drop.                 *)
(***************************************************************************)
TermRowsRun ==
  << [metric_id |-> 2, party |-> "D", value |-> Some(1), term_start |-> Some(2)],
     [metric_id |-> 1, party |-> "D", value |-> Some(1), term_start |-> Some(0)],
     [metric_id |-> 1, party |-> "R", value |-> Some(0), term_start |-> Some(0)],
     [metric_id |-> 2, party |-> "R", value |-> Some(0), term_start |-> Some(0)],
     [metric_id |-> 1, party |-> "R", value |-> Some(0), term_start |-> None],
     [metric_id |-> 1, party |-> "I", value |-> Some(1), term_start |-> Some(0)] >>

WindowLabelsRun ==
  << [window_id |-> 1, president_term_id |-> 1, pres_party |-> "D",
      unified_government |-> 1, window_days |-> 2],
     [window_id |-> 2, president_term_id |-> 1, pres_party |-> "D",
      unified_government |-> 0, window_days |-> 1],
     [window_id |-> 3, president_term_id |-> 2, pres_party |-> "R",
      unified_government |-> 1, window_days |-> 1],
     [window_id |-> 4, president_term_id |-> 2, pres_party |-> "R",
      unified_government |-> 0, window_days |-> 1],
     [window_id |-> 5, president_term_id |-> 3, pres_party |-> "D",
      unified_government |-> 1, window_days |-> 0],
     [window_id |-> 6, president_term_id |-> 3, pres_party |-> "D",
      unified_government |-> 0, window_days |-> 0] >>

WindowRowsRun ==
  << [metric_id |-> 1, term_id |-> 3, value |-> Some(2)],
     [metric_id |-> 1, term_id |-> 1, value |-> Some(1)],
     [metric_id |-> 1, term_id |-> 2, value |-> Some(0)],
     [metric_id |-> 1, term_id |-> 4, value |-> Some(0)],
     [metric_id |-> 1, term_id |-> 5, value |-> Some(3)],
     [metric_id |-> 1, term_id |-> 6, value |-> Some(0)],
     [metric_id |-> 1, term_id |-> 7, value |-> Some(1)] >>

RECURSIVE SubLists(_)
SubLists(xs) ==
  IF xs = <<>> THEN {<<>>}
  ELSE LET rest == SubLists(Tail(xs))
       IN  rest \cup {<<xs[1]>> \o t : t \in rest}

InitRun ==
  \/ \E tbl \in SubLists(TermRowsRun) \ {<<>>}, n \in 1..MaxPermsRun,
        b \in 0..MaxBootRun, by \in 0..MaxBlockYears :
       InitEngine(tbl, <<>>, [pass |-> "term", permutations |-> n,
                              seed |-> DefaultSeed, block_years |-> by,
                              bootstrap_samples |-> b,
                              q_threshold |-> Rat(STRICT_Q_DEFAULT, 1),
                              min_n_obs |-> 2, runs |-> 2])
  \/ \E tbl \in SubLists(WindowRowsRun) \ {<<>>}, n \in 1..MaxPermsRun,
        b \in 0..MaxBootRun, days \in 0..1 :
       InitEngine(tbl, WindowLabelsRun,
                  [pass |-> "within", permutations |-> n,
                   seed |-> DefaultSeed, bootstrap_samples |-> b,
                   min_window_days |-> days,
                   q_threshold |-> Rat(STRICT_Q_DEFAULT, 1),
                   min_n_within_both |-> 2, runs |-> 2])

NextRun ==
  \/ Load
  \/ NextMetric
  \/ ShuffleBlock
  \/ EndPermutation
  \/ FinishMetric
  \/ FinishRun
  \/ WLoad
  \/ WNextGroup
  \/ WShuffleTerm
  \/ WEndPermutation
  \/ WFinishGroup
  \/ WFinishRun
  \/ Rerun
SpecRun == InitRun /\ [][NextRun]_vars

(***************************************************************************)
(* The permutation p-value and the blocks, stated from the observations of *)
(* the metric.                                                             *)
(***************************************************************************)
RowWritten == pc \in {"metric", "done"} /\ rows # <<>>
NullExtreme(observed) ==
  Cardinality({i \in 1..Len(perm_diffs) :
                 RLe(RAbs(observed), RAbs(perm_diffs[i]))})

\* C7: for a metric with both party groups non-empty and permutations >= 1,
\* every iteration contributes one null draw and the reported p is
\* (1 + #{|null_i| >= |observed|}) / (1 + permutations) to six decimals, so
\* 0 < p <= 1, and p = 1 when every null draw is at least as extreme as
\* observed (as when observed = 0); with no null draws p is left blank.
C7_PValue ==
  RowWritten =>
    LET obs == groups[metric]
        row == rows[Len(rows)]
        observed == diff_d_minus_r(Values(obs), Labels(obs))
        n == cfg.permutations
    IN  IF /\ CountWhere(Labels(obs), "D") > 0
           /\ CountWhere(Labels(obs), "R") > 0
           /\ n >= 1
        THEN /\ Len(perm_diffs) = n
             /\ row.p.k = "num"
             /\ Nearest(row.p.v,
                        Rat((1 + NullExtreme(observed[1])) * Micro, 1 + n))
             /\ 0 < row.p.v
             /\ row.p.v <= Micro
             /\ NullExtreme(observed[1]) = n => row.p.v = Micro
             /\ observed[1][1] = 0 => row.p.v = Micro
        ELSE /\ perm_diffs = <<>>
             /\ row.p = EmptyCell

\* Two permutations of which exactly one is as extreme as observed: p = 2/3.
C7_Witness ==
  /\ pc = "done"
  /\ cfg.permutations = 2
  /\ Len(perm_diffs) = 2
  /\ NullExtreme(diff_d_minus_r(Values(Obs), Labels(Obs))[1]) = 1
  /\ rows[1].p = NumCell(666667)

YearsOf(obs) ==
  {obs[j].term_start[1] : j \in {n \in 1..Len(obs) : obs[n].term_start # None}}
\* (year - min_year) // block_years, -1 without a year; one block when
\* block_years is 0.
BlockOf(obs, i) ==
  IF cfg.block_years = 0 THEN 0
  ELSE IF obs[i].term_start = None THEN 0 - 1
  ELSE (obs[i].term_start[1] - MinOf(YearsOf(obs))) \div cfg.block_years
InBlock(obs, b) == {i \in 1..Len(obs) : BlockOf(obs, i) = b}
BlockKeys(obs) == {BlockOf(obs, i) : i \in 1..Len(obs)}

\* C8: at every point of every permutation iteration the permuted labelling
\* has, in each block, as many D and as many R labels as the original one;
\* the terms without a year are block -1, so their labels stay among them.
C8_BlockCounts ==
  pc = "perm" =>
    /\ Len(perm_labels) = Len(Obs)
    /\ \A b \in BlockKeys(Obs) : \A lab \in Parties :
         Cardinality({i \in InBlock(Obs, b) : perm_labels[i] = lab})
           = Cardinality({i \in InBlock(Obs, b) : Obs[i].party = lab})

\* A finished iteration over a block of terms with years and the block of
\* terms without, which changed the labelling.
C8_Witness ==
  /\ pc = "perm"
  /\ cfg.block_years > 0
  /\ blk = Len(block_to_idx)
  /\ 0 - 1 \in BlockKeys(Obs)
  /\ Cardinality(BlockKeys(Obs)) >= 2
  /\ perm_labels # Labels(Obs)

FirstAt(obs, b) == MinOf(InBlock(obs, b))
\* C9 as stated: the blocks shuffled so far in an iteration are in ascending
\* order of block key.
C9_SortedBlockOrder ==
  pc = "perm" =>
    \A j \in 1..Len(shuffled) : \A k \in 1..Len(shuffled) :
      j < k => shuffled[j] < shuffled[k]

\* C9 as amended: in every iteration the blocks are shuffled in the order in
\* which their keys first appear among the observations of the metric, the
\* generator advancing by one call less than the size of each block.
C9_FirstAppearanceOrder ==
  pc = "perm" =>
    /\ Len(shuffled) = blk
    /\ \A j \in 1..Len(shuffled) :
         /\ shuffled[j] \in BlockKeys(Obs)
         /\ Cardinality({b \in BlockKeys(Obs) :
                           FirstAt(Obs, b) <= FirstAt(Obs, shuffled[j])}) = j
    /\ rows = <<>> =>
         rng.pos = it * (Len(Obs) - Cardinality(BlockKeys(Obs)))
                   + Cardinality({i \in 1..Len(Obs) :
                                    \E j \in 1..Len(shuffled) :
                                      BlockOf(Obs, i) = shuffled[j]})
                   - Len(shuffled)

\* The second iteration has shuffled two blocks, the later key first.
C9_Witness ==
  /\ pc = "perm"
  /\ it >= 1
  /\ Len(shuffled) >= 2
  /\ shuffled[1] > shuffled[2]

\* C10: when the command has been run a second time on the same files with
\* the same seed, permutation count, bootstrap sample count and block size,
\* the rows it wrote are the rows the first run wrote.
C10_RerunIdentical ==
  (run = 2 /\ pc = "done") => out_csv = prev_out

\* A second term-level run of two metrics whose rows came out of shuffles
\* and bootstrap draws.
C10_Witness ==
  /\ run = 2
  /\ pc = "done"
  /\ cfg.pass = "term"
  /\ Len(out_csv) = 2
  /\ rng.pos >= 2
  /\ boot_rng.pos >= 2
  /\ \E i \in 1..2 : /\ out_csv[i].p.k = "num"
                     /\ out_csv[i].p.v < Micro
                     /\ out_csv[i].bootstrap_ci95_low.k = "num"

\* The same of the within-president pass.
C10_WitnessWithin ==
  /\ run = 2
  /\ pc = "done"
  /\ cfg.pass = "within"
  /\ Len(out_csv) = 2
  /\ rng.pos >= 2
  /\ boot_rng.pos >= 2
  /\ \E i \in 1..2 : /\ out_csv[i].p.k = "num"
                     /\ out_csv[i].p.v < Micro
                     /\ out_csv[i].bootstrap_ci95_low.k = "num"

(***************************************************************************)
(* SpecJoint: one run of either pass on the files of SpecRun, for a strict *)
(* q threshold of 0.05 and one of 0.75, with which a tier can turn on the  *)
(* difference between a row's p and its q.                                 *)
(***************************************************************************)
QThresholdsJoint == {Rat(STRICT_Q_DEFAULT, 1), Rat(750000, 1)}

InitJoint ==
  \/ \E tbl \in SubLists(TermRowsRun) \ {<<>>}, n \in 0..MaxPermsRun,
        b \in 0..MaxBootRun, by \in 0..MaxBlockYears,
        qt \in QThresholdsJoint :
       InitEngine(tbl, <<>>, [pass |-> "term", permutations |-> n,
                              seed |-> DefaultSeed, block_years |-> by,
                              bootstrap_samples |-> b, q_threshold |-> qt,
                              min_n_obs |-> 2, runs |-> 1])
  \/ \E tbl \in SubLists(WindowRowsRun) \ {<<>>}, n \in 0..MaxPermsRun,
        b \in 0..MaxBootRun, days \in 0..1, qt \in QThresholdsJoint :
       InitEngine(tbl, WindowLabelsRun,
                  [pass |-> "within", permutations |-> n,
                   seed |-> DefaultSeed, bootstrap_samples |-> b,
                   min_window_days |-> days, q_threshold |-> qt,
                   min_n_within_both |-> 1, runs |-> 1])

NextJoint ==
  \/ Load
  \/ NextMetric
  \/ ShuffleBlock
  \/ EndPermutation
  \/ FinishMetric
  \/ FinishRun
  \/ WLoad
  \/ WNextGroup
  \/ WShuffleTerm
  \/ WEndPermutation
  \/ WFinishGroup
  \/ WFinishRun
SpecJoint == InitJoint /\ [][NextJoint]_vars

RowN(row) ==
  IF cfg.pass = "term" THEN row.n_obs.v ELSE row.n_presidents_with_both.v
MinN == IF cfg.pass = "term" THEN cfg.min_n_obs ELSE cfg.min_n_within_both
\* The tier rule of _classify_evidence on the q cell of a row.
TierFromQ(row) ==
  IF row.q.k = "num" /\ row.q.v < cfg.q_threshold[1] /\ RowN(row) >= MinN
  THEN "confirmatory"
  ELSE IF row.q.k = "num" /\ row.q.v < SUPPORTIVE_Q_THRESHOLD
          /\ RowN(row) >= MinN
  THEN "supportive"
  ELSE "exploratory"

\* C11: while the rows of a pass are being built none has a q or a tier; when
\* the pass is done there is one row per metric (group), the q of each row is
\* the BH value of its p among the p's of all rows of the pass, and its tier
\* is the tier rule applied to that q.
C11_JointBH ==
  /\ pc \in {"metric", "perm", "stats", "w_metric", "w_perm", "w_stats"} =>
       \A i \in 1..Len(rows) :
         rows[i].q = UnsetCell /\ rows[i].evidence = <<>>
  /\ pc = "done" =>
       /\ Len(rows) = Cardinality(DOMAIN groups)
       /\ \A i \in 1..Len(rows) :
            /\ IF rows[i].p.k = "num"
               THEN /\ rows[i].q.k = "num"
                    /\ Nearest(rows[i].q.v, BHMin(rows, i))
               ELSE rows[i].q = EmptyCell
            /\ rows[i].evidence.evidence_tier = TierFromQ(rows[i])

\* A term-level pass of two metrics in which the first row has p = 0.5 and
\* joint q = 1: under the threshold 0.75 it is exploratory, not confirmatory.
C11_Witness ==
  /\ pc = "done"
  /\ cfg.pass = "term"
  /\ cfg.q_threshold = Rat(750000, 1)
  /\ Len(rows) = 2
  /\ rows[1].p = NumCell(500000)
  /\ rows[1].q = NumCell(Micro)
  /\ rows[1].n_obs.v >= 2
  /\ rows[1].evidence.evidence_tier = "exploratory"

\* The same of the within-president pass.
C11_WitnessWithin ==
  /\ pc = "done"
  /\ cfg.pass = "within"
  /\ cfg.q_threshold = Rat(750000, 1)
  /\ Len(rows) = 2
  /\ rows[1].p = NumCell(500000)
  /\ rows[1].q = NumCell(Micro)
  /\ rows[1].n_presidents_with_both.v >= 1
  /\ rows[1].evidence.evidence_tier = "exploratory"

\* The key of a row and of a loop variable, as <<metric_id, pres_party>>
\* (the party is immaterial in the term-level pass).
KeyOfRow(row) ==
  IF cfg.pass = "term" THEN <<row.metric_id, "D">>
  ELSE <<row.metric_id, row.pres_party>>
KeyOfLoop(m) == IF cfg.pass = "term" THEN <<m, "D">> ELSE m
Before(a, b) == a[1] < b[1] \/ (a[1] = b[1] /\ a[2] = "D" /\ b[2] = "R")
InLoop == pc \in {"perm", "stats", "w_perm", "w_stats"}

\* C12: the rows written so far are in strictly ascending order of metric id
\* (of (metric_id, pres_party) in the within-president pass), the metric
\* being processed, which is the one drawing from the generators, comes
\* after all of them and before every metric still to do, and a finished
\* pass has one row per metric in that order.
C12_SortedMetricOrder ==
  pc \in {"metric", "perm", "stats", "w_metric", "w_perm", "w_stats", "done"} =>
    /\ \A i \in 1..Len(rows) : \A j \in 1..Len(rows) :
         i < j => Before(KeyOfRow(rows[i]), KeyOfRow(rows[j]))
    /\ InLoop =>
         /\ \A i \in 1..Len(rows) :
              Before(KeyOfRow(rows[i]), KeyOfLoop(metric))
         /\ \A j \in 1..Len(todo) :
              Before(KeyOfLoop(metric), KeyOfLoop(todo[j]))
    /\ \A i \in 1..Len(rows) : \A j \in 1..Len(todo) :
         Before(KeyOfRow(rows[i]), KeyOfLoop(todo[j]))
    /\ pc = "done" =>
         {KeyOfRow(rows[i]) : i \in 1..Len(rows)}
           = {KeyOfLoop(k) : k \in DOMAIN groups}

\* Metric 2 comes first in the file and metric 1 is permuted first: the
\* second metric is being permuted after the generator served the first.
C12_Witness ==
  /\ pc = "perm"
  /\ cfg.pass = "term"
  /\ table[1].metric_id = 2
  /\ metric = 2
  /\ Len(rows) = 1
  /\ rows[1].metric_id = 1
  /\ rng.pos >= 1

\* The group (1, R) comes first in the file and (1, D) is permuted first.
C12_WitnessWithin ==
  /\ pc = "w_perm"
  /\ cfg.pass = "within"
  /\ table[1].term_id = 3
  /\ metric = <<1, "R">>
  /\ Len(rows) = 1
  /\ rows[1].pres_party = "D"
  /\ rng.pos >= 1

(***************************************************************************)
(* SpecDiff: _diff_d_minus_r called on every list of at most MaxLenDiff    *)
(* values with as many labels, D, R or another party.                      *)
(***************************************************************************)
ValuesDiff == {1, 2, 4}
LabelsDiff == {"D", "R", "I"}

InitDiff ==
  /\ \E n \in 0..MaxLenDiff :
       \E vs \in [1..n -> ValuesDiff], ls \in [1..n -> LabelsDiff] :
         call_in = [fn |-> "_diff_d_minus_r", values |-> vs, labels |-> ls]
  /\ call_out = <<>>
  /\ call_pc = "call"
  /\ IdleBH
  /\ IdleEv
  /\ IdleEng

CallDiff ==
  /\ call_pc = "call"
  /\ call_in.fn = "_diff_d_minus_r"
  /\ call_out' = diff_d_minus_r(call_in.values, call_in.labels)
  /\ call_pc' = "done"
  /\ UNCHANGED <<call_in, bhVars, evVars, engVars>>

NextDiff == CallDiff
SpecDiff == InitDiff /\ [][NextDiff]_vars

IdxOf(labels, lab) == {i \in 1..Len(labels) : labels[i] = lab}
RECURSIVE SumOver(_, _)
SumOver(values, I) ==
  IF I = {} THEN 0
  ELSE LET i == CHOOSE x \in I : TRUE
       IN  values[i] + SumOver(values, I \ {i})

\* C13: _diff_d_minus_r returns None exactly when no value is labelled D or
\* none is labelled R; otherwise it returns the mean of the D values minus
\* the mean of the R values ([2,4,1,1] with [D,D,R,R] gives 2).
C13_DiffDMinusR ==
  call_pc = "done" /\ call_in.fn = "_diff_d_minus_r" =>
    LET D == IdxOf(call_in.labels, "D")
        R == IdxOf(call_in.labels, "R")
        nd == Cardinality(D)
        nr == Cardinality(R)
    IN  /\ call_out = None <=> (D = {} \/ R = {})
        /\ call_out # None =>
             /\ call_out[1][2] > 0
             /\ call_out[1][1] * nd * nr
                  = call_out[1][2] * (SumOver(call_in.values, D) * nr
                                      - SumOver(call_in.values, R) * nd)
        /\ (call_in.values = <<2, 4, 1, 1>>
            /\ call_in.labels = <<"D", "D", "R", "R">>) =>
             call_out = Some(Rat(2, 1))

C13_Witness ==
  /\ call_pc = "done"
  /\ call_in.fn = "_diff_d_minus_r"
  /\ call_in.values = <<2, 4, 1, 1>>
  /\ call_in.labels = <<"D", "D", "R", "R">>
  /\ call_out = Some(Rat(2, 1))

\* The D group is empty: None.
C13_WitnessNone ==
  /\ call_pc = "done"
  /\ call_in.fn = "_diff_d_minus_r"
  /\ call_in.labels = <<"R", "I", "R">>
  /\ call_out = None

(***************************************************************************)
(* SpecWithin: one run of the within-president pass on one metric of one   *)
(* party with at most MaxWindows windows; window i has value i, and every  *)
(* assignment of the windows to two president terms (the first window to   *)
(* term 1), of unified or divided government and of 0, 1 or 2 window days  *)
(* is tried.                                                               *)
(***************************************************************************)
DaysWithin == {0, 1, 2}

WindowsWithin(n, f) ==
  [i \in 1..n |-> [metric_id |-> 1, term_id |-> i, value |-> Some(i)]]
LabelsWithin(n, f) ==
  [i \in 1..n |->
     [window_id |-> i, president_term_id |-> f[i][1], pres_party |-> "D",
      unified_government |-> f[i][2], window_days |-> f[i][3]]]
CfgWithin(perms) ==
  [pass |-> "within", permutations |-> perms, seed |-> DefaultSeed,
   bootstrap_samples |-> 0, min_window_days |-> 0,
   q_threshold |-> Rat(STRICT_Q_DEFAULT, 1), min_n_within_both |-> 1,
   runs |-> 1]

\* Every choice of window days with up to MaxPermsRun permutations, and
\* windows of one day with up to MaxPerms permutations.
InitWithin ==
  \E n \in 1..MaxWindows, perms \in 0..MaxPerms :
    \E f \in {g \in [1..n -> (1..2) \X (0..1) \X DaysWithin] :
                /\ g[1][1] = 1
                /\ perms > MaxPermsRun => \A i \in 1..n : g[i][3] = 1} :
      InitEngine(WindowsWithin(n, f), LabelsWithin(n, f), CfgWithin(perms))

NextWithin ==
  \/ WLoad
  \/ WNextGroup
  \/ WShuffleTerm
  \/ WEndPermutation
  \/ WFinishGroup
  \/ WFinishRun
SpecWithin == InitWithin /\ [][NextWithin]_vars

\* The windows of a subject under a flag, and their (day-weighted) mean.
WinIdx(es, f) == {i \in 1..Len(es) : es[i].unified = f}
RECURSIVE WSum(_, _, _)
\* The sum over the windows I of value * days (weighted) or of value.
WSum(es, I, weighted) ==
  IF I = {} THEN 0
  ELSE LET i == CHOOSE x \in I : TRUE
       IN  (IF weighted THEN es[i].value * es[i].days ELSE es[i].value)
             + WSum(es, I \ {i}, weighted)
RECURSIVE DaySum(_, _)
DaySum(es, I) ==
  IF I = {} THEN 0
  ELSE LET i == CHOOSE x \in I : TRUE
       IN  es[i].days + DaySum(es, I \ {i})
FlagMean(es, f) ==
  LET pos == {i \in WinIdx(es, f) : es[i].days > 0}
  IN  IF DaySum(es, pos) > 0
      THEN Rat(WSum(es, pos, TRUE), DaySum(es, pos))
      ELSE Rat(WSum(es, WinIdx(es, f), FALSE), Cardinality(WinIdx(es, f)))
HasBoth(es) == WinIdx(es, 1) # {} /\ WinIdx(es, 0) # {}
SubjectDelta(es) == RSub(FlagMean(es, 1), FlagMean(es, 0))
RECURSIVE DeltaSum(_, _)
DeltaSum(terms, J) ==
  IF J = {} THEN Zero
  ELSE LET j == CHOOSE x \in J : TRUE
       IN  RAdd(SubjectDelta(terms[j].entries), DeltaSum(terms, J \ {j}))
GroupRowWritten == pc \in {"w_metric", "done"} /\ rows # <<>>

\* C14: the row of a group counts in n_presidents_with_both the subjects that
\* have a window under each flag, and its observed statistic is the mean of
\* the deltas mean(unified) - mean(divided) of exactly those subjects, blank
\* when there is none.
C14_SubjectDeltas ==
  GroupRowWritten =>
    LET terms == groups[metric]
        row == rows[Len(rows)]
        J == {j \in 1..Len(terms) : HasBoth(terms[j].entries)}
        total == DeltaSum(terms, J)
        obs_cell == row.observed_mean_delta_unified_minus_divided
    IN  /\ row.n_presidents_with_both = IntCell(Cardinality(J))
        /\ IF J = {} THEN obs_cell = EmptyCell
           ELSE /\ obs_cell.k = "num"
                /\ Nearest(obs_cell.v,
                           Rat(total[1] * Micro, total[2] * Cardinality(J)))

\* Two subjects, one with both kinds of window and one with a single window:
\* n is 1 and the statistic is the delta of the first.
C14_Witness ==
  /\ GroupRowWritten
  /\ Len(groups[metric]) = 2
  /\ HasBoth(groups[metric][1].entries)
  /\ ~HasBoth(groups[metric][2].entries)
  /\ rows[1].n_presidents_with_both = IntCell(1)
  /\ rows[1].observed_mean_delta_unified_minus_divided.k = "num"

CountFlag(fs, f) == Cardinality({i \in 1..Len(fs) : fs[i] = f})

\* C15: in every permutation draw the flags handed to a subject are its own
\* flags in another order, as many unified and as many divided as it has, so
\* the subjects that contribute a delta to the draw are those that contribute
\* one to the observed statistic, and every draw yields a null statistic.
C15_FlagsWithinSubject ==
  pc = "w_perm" =>
    /\ ti >= 1 =>
         LET es == term_items[ti].entries
         IN  /\ Len(flags) = Len(es)
             /\ \A f \in 0..1 : CountFlag(flags, f) = CountFlag(Flags(es), f)
    /\ Len(ds) = Cardinality({j \in 1..ti : HasBoth(term_items[j].entries)})
    /\ term_items = groups[metric]
    /\ Len(perm_stats) = it

\* A subject of three windows got its flags in another order, in the second
\* draw.
C15_Witness ==
  /\ pc = "w_perm"
  /\ it >= 1
  /\ ti >= 1
  /\ Len(term_items[ti].entries) = 3
  /\ flags # Flags(term_items[ti].entries)
  /\ Len(ds) >= 1

(***************************************************************************)
(* src/rb/inference.py: the closed-form 2x2 OLS of y on the party dummy,   *)
(* with a Newey-West or a cluster-robust sandwich variance.  A matrix is a *)
(* pair of rows of rationals.  se_beta = sqrt(var_beta) is carried as      *)
(* var_beta, z = beta / se_beta as sign(z) * z^2, and the normal two-sided *)
(* p, a function of |z| alone, as z^2.                                     *)
(***************************************************************************)

MaxLenOls == 3
MaxLags == 2

\* The code computes a value where it assigns it.  TLC computes a
\* definition where it is first used; the guard Evaluated(x) has it computed
\* where the guard stands, which keeps the evaluation of a long chain of
\* assignments shallow.
Evaluated(x) == x = x

RNeg(a) == Rat(0 - a[1], a[2])
RInv(a) == IF a[1] < 0 THEN Rat(0 - a[2], 0 - a[1]) ELSE Rat(a[2], a[1])
ZeroMat == <<<<Zero, Zero>>, <<Zero, Zero>>>>
mat2_add(a, b) ==
  CASE Evaluated(a) /\ Evaluated(b) ->
    <<<<RAdd(a[1][1], b[1][1]), RAdd(a[1][2], b[1][2])>>,
      <<RAdd(a[2][1], b[2][1]), RAdd(a[2][2], b[2][2])>>>>
mat2_scale(c, a) ==
  CASE Evaluated(c) /\ Evaluated(a) ->
    <<<<RMul(c, a[1][1]), RMul(c, a[1][2])>>,
      <<RMul(c, a[2][1]), RMul(c, a[2][2])>>>>

mat2_mul(a, b) ==
  CASE Evaluated(a) /\ Evaluated(b) ->
    <<<<RAdd(RMul(a[1][1], b[1][1]), RMul(a[1][2], b[2][1])),
        RAdd(RMul(a[1][1], b[1][2]), RMul(a[1][2], b[2][2]))>>,
      <<RAdd(RMul(a[2][1], b[1][1]), RMul(a[2][2], b[2][1])),
        RAdd(RMul(a[2][1], b[1][2]), RMul(a[2][2], b[2][2]))>>>>

\* abs(det) <= 1e-12 is det = 0 here: the entries of X'X are integers.
mat2_inv(a) ==
  LET det == RSub(RMul(a[1][1], a[2][2]), RMul(a[1][2], a[2][1]))
  IN  IF det[1] = 0 THEN None
      ELSE LET inv_det == RInv(det)
           IN  Some(<<<<RMul(a[2][2], inv_det), RNeg(RMul(a[1][2], inv_det))>>,
                      <<RNeg(RMul(a[2][1], inv_det)), RMul(a[1][1], inv_det)>>>>)

\* 2 * (1 - Phi(|z|)): carried as z^2.
two_sided_normal_p(z) == IF z = None THEN None ELSE Some(RAbs(z[1]))

AllNone == [beta |-> None, se |-> None, z |-> None, p |-> None]

\* s_d, s_y, s_dy, X'X and its inverse.
ols_xtx_inv(y, d) ==
  LET n == Len(y)
      s_d == ISum(d)
  IN  mat2_inv(<<<<Rat(n, 1), Rat(s_d, 1)>>, <<Rat(s_d, 1), Rat(s_d, 1)>>>>)

ols_coef_r_minus_d(y, d, xtx_inv) ==
  LET s_y == Rat(ISum(y), 1)
      s_dy == Rat(ISum([i \in 1..Len(y) |-> d[i] * y[i]]), 1)
  IN  [alpha |-> RAdd(RMul(xtx_inv[1][1], s_y), RMul(xtx_inv[1][2], s_dy)),
       beta |-> RNeg(RAdd(RMul(xtx_inv[2][1], s_y), RMul(xtx_inv[2][2], s_dy)))]

\* alpha and beta = (X'X)^-1 X'y.
ols_coef(y, d, xtx_inv) ==
  LET s_y == Rat(ISum(y), 1)
      s_dy == Rat(ISum([i \in 1..Len(y) |-> d[i] * y[i]]), 1)
  IN  [alpha |-> RAdd(RMul(xtx_inv[1][1], s_y), RMul(xtx_inv[1][2], s_dy)),
       beta |-> RAdd(RMul(xtx_inv[2][1], s_y), RMul(xtx_inv[2][2], s_dy))]

\* u_t = y_t - (alpha + beta * D_t).
residuals(y, d, co) ==
  [t \in 1..Len(y) |->
     RSub(Rat(y[t], 1), RAdd(co.alpha, RMul(co.beta, Rat(d[t], 1))))]

\* 1e-12 in the unit of the variance: y is held in millionths, so the
\* variance of beta is held in squares of a millionth.
NoiseFloor == Rat(1, 1)

sandwich_result_no_clamp(beta, var_beta) ==
  IF var_beta[1] < 0
  THEN [beta |-> Some(beta), se |-> None, z |-> None, p |-> None]
  ELSE IF var_beta[1] = 0
  THEN [beta |-> Some(beta), se |-> Some(Zero), z |-> None, p |-> None]
  ELSE LET sq == RMul(beta, beta)
           z2 == RMul(sq, RInv(var_beta))
           z == Some(IF beta[1] < 0 THEN RNeg(z2) ELSE z2)
       IN  [beta |-> Some(beta), se |-> Some(var_beta), z |-> z,
            p |-> two_sided_normal_p(z)]

\* The tail of both estimators: the variance of beta to se, z and p.  A
\* negative variance above -1e-12 is taken as zero, one at or below it ends
\* the call with beta alone; a zero se ends it before the division.
sandwich_result(beta, var_beta) ==
  IF var_beta[1] < 0 /\ ~RLt(RNeg(NoiseFloor), var_beta)
  THEN [beta |-> Some(beta), se |-> None, z |-> None, p |-> None]
  ELSE LET var == IF var_beta[1] < 0 THEN Zero ELSE var_beta
       IN  IF var[1] <= 0
           THEN [beta |-> Some(beta), se |-> Some(Zero), z |-> None, p |-> None]
           ELSE LET sq == RMul(beta, beta)
                    z2 == RMul(sq, RInv(var))
                    z == Some(IF beta[1] < 0 THEN RNeg(z2) ELSE z2)
                IN  [beta |-> Some(beta), se |-> Some(var), z |-> z,
                     p |-> two_sided_normal_p(z)]

\* sum_t u_t^2 x_t x_t' over t = 1..k, x_t = (1, D_t).
RECURSIVE hc_sum(_, _, _)
hc_sum(u, d, k) ==
  IF k = 0 THEN ZeroMat
  ELSE LET x1 == Rat(d[k], 1)
       IN  mat2_add(hc_sum(u, d, k - 1),
                    mat2_scale(RMul(u[k], u[k]),
                               <<<<Rat(1, 1), x1>>, <<x1, RMul(x1, x1)>>>>))

\* w * sum_t u_t u_(t-lag) (x_t x_l' + x_l x_t') over the t above lag, up to k.
RECURSIVE nw_lag_sum(_, _, _, _, _)
nw_lag_sum(u, d, lag, w, k) ==
  IF k <= lag THEN ZeroMat
  ELSE LET scale == RMul(w, RMul(u[k], u[k - lag]))
           xt == d[k]
           xl == d[k - lag]
       IN  mat2_add(nw_lag_sum(u, d, lag, w, k - 1),
                    mat2_scale(scale,
                               <<<<Rat(2, 1), Rat(xl + xt, 1)>>,
                                 <<Rat(xt + xl, 1), Rat(2 * xt * xl, 1)>>>>))

\* The lags 1..lag with the Bartlett weight 1 - lag / (lag_max + 1).
RECURSIVE nw_sum(_, _, _, _)
nw_sum(u, d, lag, lag_max) ==
  IF lag = 0 THEN ZeroMat
  ELSE mat2_add(nw_sum(u, d, lag - 1, lag_max),
                nw_lag_sum(u, d, lag, RNorm(Rat(lag_max + 1 - lag, lag_max + 1)),
                           Len(u)))

\* _ols_nw after its guards.
ols_nw_fit(y, d, nw_lags) ==
  LET n == Len(y)
      xtx_inv == ols_xtx_inv(y, d)
  IN  IF xtx_inv = None THEN AllNone
      ELSE LET co == ols_coef(y, d, xtx_inv[1])
               u == residuals(y, d, co)
               lag_max == MaxOf({0, MinOf({nw_lags, n - 1})})
               s == mat2_add(hc_sum(u, d, n), nw_sum(u, d, lag_max, lag_max))
               v == mat2_mul(mat2_mul(xtx_inv[1], s), xtx_inv[1])
           IN  CASE Evaluated(co) /\ Evaluated(u) /\ Evaluated(v) ->
                 sandwich_result(co.beta, v[2][2])

ols_nw_min2(y, d, nw_lags) ==
  LET n == Len(y)
      s_d == ISum(d)
  IN  IF n < 2 \/ n # Len(d) THEN AllNone
      ELSE IF s_d <= 0 \/ s_d >= n THEN AllNone
      ELSE ols_nw_fit(y, d, nw_lags)

ols_nw(y, d, nw_lags) ==
  LET n == Len(y)
      s_d == ISum(d)
  IN  IF n < 3 \/ n # Len(d) THEN AllNone
      ELSE IF s_d <= 0 \/ s_d >= n THEN AllNone
      ELSE ols_nw_fit(y, d, nw_lags)

AllNoneCluster == [beta |-> None, se |-> None, z |-> None, p |-> None, g |-> 0]

\* scores_by_cluster[cid] = S_g = sum of x_i * u_i over the rows of cluster
\* cid.
cluster_score(u, d, clusters, cid) ==
  LET I == {i \in 1..Len(u) : clusters[i] = cid}
  IN  <<RSum([i \in 1..Len(u) |-> IF i \in I THEN u[i] ELSE Zero]),
        RSum([i \in 1..Len(u) |->
                IF i \in I THEN RMul(Rat(d[i], 1), u[i]) ELSE Zero])>>

\* meat = sum_g S_g S_g' over the clusters cids.
RECURSIVE cluster_meat(_, _, _, _)
cluster_meat(u, d, clusters, cids) ==
  IF cids = {} THEN ZeroMat
  ELSE LET cid == CHOOSE c \in cids : TRUE
           sc == cluster_score(u, d, clusters, cid)
       IN  mat2_add(cluster_meat(u, d, clusters, cids \ {cid}),
                    <<<<RMul(sc[1], sc[1]), RMul(sc[1], sc[2])>>,
                      <<RMul(sc[2], sc[1]), RMul(sc[2], sc[2])>>>>)

cluster_corr_none(g, n) == Rat(1, 1)

\* corr = (g / (g - 1)) * ((n - 1) / (n - k)), k = 2.
cluster_corr(g, n) ==
  IF g > 1 /\ n > 2 THEN RNorm(Rat(g * (n - 1), (g - 1) * (n - 2)))
  ELSE Rat(1, 1)

\* _ols_cluster after its guards.
ols_cluster_fit(y, d, clusters) ==
  LET n == Len(y)
      xtx_inv == ols_xtx_inv(y, d)
  IN  IF xtx_inv = None THEN AllNoneCluster
      ELSE LET co == ols_coef(y, d, xtx_inv[1])
               u == residuals(y, d, co)
               cids == {clusters[i] : i \in 1..n}
               g == Cardinality(cids)
           IN  CASE Evaluated(co) /\ Evaluated(u) ->
               IF g < 2
               THEN [beta |-> Some(co.beta), se |-> None, z |-> None,
                     p |-> None, g |-> g]
               ELSE LET meat == mat2_scale(cluster_corr(g, n),
                                           cluster_meat(u, d, clusters, cids))
                        v == mat2_mul(mat2_mul(xtx_inv[1], meat), xtx_inv[1])
                        r == sandwich_result(co.beta, v[2][2])
                    IN  CASE Evaluated(v) ->
                          [beta |-> r.beta, se |-> r.se, z |-> r.z,
                           p |-> r.p, g |-> g]

ols_cluster(y, d, clusters) ==
  LET n == Len(y)
      s_d == ISum(d)
  IN  IF n < 3 \/ n # Len(d) \/ n # Len(clusters) THEN AllNoneCluster
      ELSE IF s_d <= 0 \/ s_d >= n THEN AllNoneCluster
      ELSE ols_cluster_fit(y, d, clusters)

(***************************************************************************)
(* The two estimators called on every series of up to MaxLenOls term       *)
(* observations, as run_inference_table calls them: y, d and clusters have *)
(* one entry per observation and d is 1 for a D term and 0 for an R term.  *)
(***************************************************************************)

\* Values of y, in millionths.
ValuesOls == {0, 1, 3}
ClustersOls == {"a", "b"}

InitOls ==
  /\ \E n \in 0..MaxLenOls :
       \E y \in [1..n -> ValuesOls], d \in [1..n -> 0..1] :
         \/ \E nw_lags \in 0..MaxLags :
              call_in = [fn |-> "_ols_nw", y |-> y, d |-> d,
                         nw_lags |-> nw_lags]
         \/ \E clusters \in [1..n -> ClustersOls] :
              call_in = [fn |-> "_ols_cluster", y |-> y, d |-> d,
                         clusters |-> clusters]
  /\ call_out = <<>>
  /\ call_pc = "call"
  /\ IdleBH
  /\ IdleEv
  /\ IdleEng

CallOlsNw ==
  /\ call_pc = "call"
  /\ call_in.fn = "_ols_nw"
  /\ call_out' = ols_nw(call_in.y, call_in.d, call_in.nw_lags)
  /\ call_pc' = "done"
  /\ UNCHANGED <<call_in, bhVars, evVars, engVars>>

CallOlsCluster ==
  /\ call_pc = "call"
  /\ call_in.fn = "_ols_cluster"
  /\ call_out' = ols_cluster(call_in.y, call_in.d, call_in.clusters)
  /\ call_pc' = "done"
  /\ UNCHANGED <<call_in, bhVars, evVars, engVars>>

NextOls == CallOlsNw \/ CallOlsCluster
SpecOls == InitOls /\ [][NextOls]_vars

DIdx(d, v) == {i \in 1..Len(d) : d[i] = v}
ConstantD(d) == DIdx(d, 0) = {} \/ DIdx(d, 1) = {}

\* C16: _ols_nw returns beta, se, z and p all None when there are fewer
\* than 3 observations or the 0/1 indicator D is all 0 or all 1; for every
\* other series it returns a beta, the mean of the D values minus the mean
\* of the R values.
C16_OlsNwGuards ==
  call_pc = "done" /\ call_in.fn = "_ols_nw" =>
    LET n == Len(call_in.y)
        D == DIdx(call_in.d, 1)
        R == DIdx(call_in.d, 0)
        nd == Cardinality(D)
        nr == Cardinality(R)
    IN  IF n < 3 \/ ConstantD(call_in.d)
        THEN call_out = AllNone
        ELSE /\ call_out.beta # None
             /\ call_out.beta[1][2] > 0
             /\ call_out.beta[1][1] * nd * nr
                  = call_out.beta[1][2] * (SumOver(call_in.y, D) * nr
                                           - SumOver(call_in.y, R) * nd)

\* Three observations of D terms only: no estimate.
C16_Witness ==
  /\ call_pc = "done"
  /\ call_in.fn = "_ols_nw"
  /\ call_in.y = <<0, 1, 3>>
  /\ call_in.d = <<1, 1, 1>>
  /\ call_out = AllNone

\* Two observations with both parties: no estimate either.
C16_WitnessShort ==
  /\ call_pc = "done"
  /\ call_in.fn = "_ols_nw"
  /\ call_in.y = <<0, 3>>
  /\ call_in.d = <<1, 0>>
  /\ call_out = AllNone

\* Three observations with both parties: beta = 3 - 1/2, with se, z and p.
C16_WitnessBeta ==
  /\ call_pc = "done"
  /\ call_in.fn = "_ols_nw"
  /\ call_in.y = <<0, 3, 1>>
  /\ call_in.d = <<0, 1, 0>>
  /\ call_out.beta = Some(Rat(5, 2))
  /\ call_out.p # None

\* n_p * (sum of y over the rows of cluster cid and party p)
\*   - (rows of cluster cid and party p) * (sum of y over party p):
\* n_p times the sum of the residuals of those rows.
ClusterResidual(y, d, clusters, cid, p) ==
  LET P == DIdx(d, p)
      I == {i \in P : clusters[i] = cid}
  IN  Cardinality(P) * SumOver(y, I) - Cardinality(I) * SumOver(y, P)

\* sum over the clusters of (n_d n_r)^4 * (S_g-weighted score of beta)^2.
RECURSIVE ClusterSquares(_, _, _, _)
ClusterSquares(y, d, clusters, cids) ==
  IF cids = {} THEN 0
  ELSE LET cid == CHOOSE c \in cids : TRUE
           nd == Cardinality(DIdx(d, 1))
           nr == Cardinality(DIdx(d, 0))
           t == ClusterResidual(y, d, clusters, cid, 1) * nr * nr
                  - ClusterResidual(y, d, clusters, cid, 0) * nd * nd
       IN  t * t + ClusterSquares(y, d, clusters, cids \ {cid})

\* C17: on three or more observations with both parties, _ols_cluster
\* reports the number of distinct clusters and the OLS beta; with fewer than
\* 2 clusters se, z and p are None; with 2 or more the variance of beta is
\* the (beta, beta) entry of (X'X)^-1 meat (X'X)^-1 with
\* meat = sum_g S_g S_g' scaled by (G / (G - 1)) * ((n - 1) / (n - 2)).
C17_OlsCluster ==
  (/\ call_pc = "done"
   /\ call_in.fn = "_ols_cluster"
   /\ Len(call_in.y) >= 3
   /\ ~ConstantD(call_in.d)) =>
    LET y == call_in.y
        d == call_in.d
        n == Len(y)
        D == DIdx(d, 1)
        R == DIdx(d, 0)
        nd == Cardinality(D)
        nr == Cardinality(R)
        cids == {call_in.clusters[i] : i \in 1..n}
        G == Cardinality(cids)
    IN  /\ call_out.g = G
        /\ call_out.beta
             = Some(RNorm(Rat(SumOver(y, D) * nr - SumOver(y, R) * nd, nd * nr)))
        /\ G < 2 =>
             call_out.se = None /\ call_out.z = None /\ call_out.p = None
        /\ G >= 2 =>
             call_out.se
               = Some(RNorm(Rat(
                   G * (n - 1) * ClusterSquares(y, d, call_in.clusters, cids),
                   (G - 1) * (n - 2) * nd * nd * nd * nd * nr * nr * nr * nr)))

\* One cluster: beta without se, z and p, and a cluster count of 1.
C17_Witness ==
  /\ call_pc = "done"
  /\ call_in.fn = "_ols_cluster"
  /\ call_in.y = <<0, 3, 1>>
  /\ call_in.d = <<0, 1, 0>>
  /\ call_in.clusters = <<"a", "a", "a">>
  /\ call_out = [beta |-> Some(Rat(5, 2)), se |-> None, z |-> None,
                 p |-> None, g |-> 1]

\* Two clusters: a positive variance, z and p.
C17_WitnessTwoClusters ==
  /\ call_pc = "done"
  /\ call_in.fn = "_ols_cluster"
  /\ call_in.y = <<0, 3, 1>>
  /\ call_in.d = <<0, 1, 0>>
  /\ call_in.clusters = <<"a", "a", "b">>
  /\ call_out.g = 2
  /\ call_out.se # None
  /\ call_out.se[1][1] > 0
  /\ call_out.p # None

(***************************************************************************)
(* write_claims_table: the baseline and the strict evidence rows joined    *)
(* per key.  An evidence row is its metric_id, pres_party and              *)
(* evidence_tier; the other columns of a claims row are cells copied or    *)
(* reformatted from the two rows.                                          *)
(***************************************************************************)

MaxRowsClaims == 2

\* k = (metric_id, pres_party if has_party else "")
claims_key(r, has_party) ==
  <<r.metric_id, IF has_party THEN r.pres_party ELSE "">>

\* bmap / smap: the last row of each key; .get(k, {}) of a key without row.
claims_map_get(rs, has_party, k) ==
  LET I == {i \in 1..Len(rs) : claims_key(rs[i], has_party) = k}
  IN  IF I = {} THEN None ELSE Some(rs[MaxOf(I)])

\* (r.get("evidence_tier") or "").strip()
claims_tier(r) == IF r = None THEN "" ELSE r[1].evidence_tier

tier_change_reversed(rank_b, rank_s) ==
  IF rank_s > rank_b THEN "weaker"
  ELSE IF rank_s < rank_b THEN "stronger"
  ELSE "same"

tier_change(rank_b, rank_s) ==
  IF rank_s > rank_b THEN "stronger"
  ELSE IF rank_s < rank_b THEN "weaker"
  ELSE "same"

claims_row(analysis, k, br, sr) ==
  LET tier_b == claims_tier(br)
      tier_s == claims_tier(sr)
  IN  [analysis |-> analysis, metric_id |-> k[1], pres_party |-> k[2],
       tier_baseline |-> IF tier_b = "" THEN "missing" ELSE tier_b,
       tier_strict |-> IF tier_s = "" THEN "missing" ELSE tier_s,
       tier_change |-> tier_change(tier_rank(tier_b), tier_rank(tier_s))]

append_analysis(analysis, base_rows, strict_rows, has_party) ==
  IF base_rows = <<>> /\ strict_rows = <<>> THEN <<>>
  ELSE LET keys == SortedKeys(
                     {claims_key(base_rows[i], has_party) :
                        i \in 1..Len(base_rows)}
                     \cup {claims_key(strict_rows[i], has_party) :
                             i \in 1..Len(strict_rows)})
       IN  [j \in 1..Len(keys) |->
              claims_row(analysis, keys[j],
                         claims_map_get(base_rows, has_party, keys[j]),
                         claims_map_get(strict_rows, has_party, keys[j]))]

\* A within CSV path of None is None here; a CSV that does not exist loads
\* as no rows.
write_claims_table(base_term, strict_term, base_within, strict_within) ==
  append_analysis("term_party", base_term, strict_term, FALSE)
    \o (IF base_within # None /\ strict_within # None
        THEN append_analysis("within_unified", base_within[1],
                             strict_within[1], TRUE)
        ELSE <<>>)

TiersClaims == {"confirmatory", "supportive", "exploratory", ""}
TiersWritten == {"confirmatory", "supportive", "exploratory"}
TermRowsClaims ==
  [metric_id : 1..2, pres_party : {""}, evidence_tier : TiersClaims]
WithinRowsClaims ==
  [metric_id : {1}, pres_party : {"D", "R"}, evidence_tier : TiersWritten]
ListsClaims(S) == UNION {[1..n -> S] : n \in 0..MaxRowsClaims}

\* Term-party tables alone, or within tables next to empty term-party ones.
InitClaims ==
  /\ \/ \E b \in ListsClaims(TermRowsClaims), s \in ListsClaims(TermRowsClaims) :
          call_in = [fn |-> "write_claims_table", baseline_party_term |-> b,
                     strict_party_term |-> s, baseline_within |-> None,
                     strict_within |-> None]
     \/ \E b \in ListsClaims(WithinRowsClaims),
           s \in ListsClaims(WithinRowsClaims) :
          call_in = [fn |-> "write_claims_table", baseline_party_term |-> <<>>,
                     strict_party_term |-> <<>>, baseline_within |-> Some(b),
                     strict_within |-> Some(s)]
  /\ call_out = <<>>
  /\ call_pc = "call"
  /\ IdleBH
  /\ IdleEv
  /\ IdleEng

CallClaims ==
  /\ call_pc = "call"
  /\ call_in.fn = "write_claims_table"
  /\ call_out' = write_claims_table(call_in.baseline_party_term,
                                    call_in.strict_party_term,
                                    call_in.baseline_within,
                                    call_in.strict_within)
  /\ call_pc' = "done"
  /\ UNCHANGED <<call_in, bhVars, evVars, engVars>>

NextClaims == CallClaims
SpecClaims == InitClaims /\ [][NextClaims]_vars

\* The two tables the written rows come from, and whether keys carry a party.
HasParty == call_in.baseline_within # None
BaseRows ==
  IF HasParty THEN call_in.baseline_within[1] ELSE call_in.baseline_party_term
StrictRows ==
  IF HasParty THEN call_in.strict_within[1] ELSE call_in.strict_party_term
KeysIn(rs) == {<<rs[i].metric_id, rs[i].pres_party>> : i \in 1..Len(rs)}
\* The tier of the last row of key k, "" when that row has none, "none" when
\* there is no such row.
LastTier(rs, k) ==
  LET I == {i \in 1..Len(rs) : <<rs[i].metric_id, rs[i].pres_party>> = k}
  IN  IF I = {} THEN "none"
      ELSE rs[CHOOSE i \in I : \A j \in I : j <= i].evidence_tier
RankOf(t) ==
  IF t = "confirmatory" THEN 2 ELSE IF t = "supportive" THEN 1 ELSE 0

\* C18: write_claims_table writes exactly one row for each key of the
\* baseline or the strict table; its tier_change is stronger, weaker or same
\* as the strict tier ranks above, below or level with the baseline tier
\* (confirmatory 2, supportive 1, anything else 0), and a side without a row
\* for the key has the tier missing.
C18_ClaimsRows ==
  call_pc = "done" /\ call_in.fn = "write_claims_table" =>
    LET keys == KeysIn(BaseRows) \cup KeysIn(StrictRows)
        keyOf(r) == <<r.metric_id, r.pres_party>>
    IN  /\ \A k \in keys :
             Cardinality({j \in 1..Len(call_out) : keyOf(call_out[j]) = k}) = 1
        /\ \A j \in 1..Len(call_out) :
             LET r == call_out[j]
                 tb == LastTier(BaseRows, keyOf(r))
                 ts == LastTier(StrictRows, keyOf(r))
             IN  /\ keyOf(r) \in keys
                 /\ tb = "none" => r.tier_baseline = "missing"
                 /\ ts = "none" => r.tier_strict = "missing"
                 /\ tb \in TiersWritten => r.tier_baseline = tb
                 /\ ts \in TiersWritten => r.tier_strict = ts
                 /\ r.tier_change = "stronger" <=> RankOf(ts) > RankOf(tb)
                 /\ r.tier_change = "weaker" <=> RankOf(ts) < RankOf(tb)
                 /\ r.tier_change = "same" <=> RankOf(ts) = RankOf(tb)

\* Metric 1 is confirmatory in the baseline and supportive in the strict
\* table, metric 2 has a strict row only.
C18_Witness ==
  /\ call_pc = "done"
  /\ call_in.fn = "write_claims_table"
  /\ Len(call_out) = 2
  /\ call_out[1].tier_baseline = "confirmatory"
  /\ call_out[1].tier_strict = "supportive"
  /\ call_out[1].tier_change = "weaker"
  /\ call_out[2].tier_baseline = "missing"
  /\ call_out[2].tier_strict = "confirmatory"
  /\ call_out[2].tier_change = "stronger"

\* Two baseline rows of one key: one written row, with the later row's tier.
C18_WitnessDuplicate ==
  /\ call_pc = "done"
  /\ call_in.fn = "write_claims_table"
  /\ Len(BaseRows) = 2
  /\ KeysIn(BaseRows) = {<<1, "D">>}
  /\ BaseRows[1].evidence_tier = "supportive"
  /\ BaseRows[2].evidence_tier = "exploratory"
  /\ StrictRows = <<>>
  /\ Len(call_out) = 1
  /\ call_out[1].tier_baseline = "exploratory"
  /\ call_out[1].tier_strict = "missing"
  /\ call_out[1].tier_change = "same"

(***************************************************************************)
(* Publication gating.  The claims-table command passes publication_mode   *)
(* and publication_hac_p_threshold to write_claims_table (cli.py), and the *)
(* report readers read tier_baseline_publication and                       *)
(* tier_strict_publication; the gate itself is modelled from section 4.9   *)
(* of the specification.  A companion row is the HAC beta and p of the     *)
(* metric in the inference table, None when the table has no row for it.   *)
(* Where section 4.9 names no demoted tier (no companion row) the gate may *)
(* give either.                                                            *)
(***************************************************************************)

\* inference.py _sign: 0 for None.
sign_of(v) ==
  IF v = None THEN 0 ELSE IF v[1][1] > 0 THEN 1 ELSE IF v[1][1] < 0 THEN 0 - 1 ELSE 0

\* inference.py _p_flag: p < threshold, None for a missing p.
p_flag(p, threshold) == IF p = None THEN None ELSE Some(RLt(p[1], threshold))

publication_tier_no_sign(tier, inf, effect, threshold) ==
  IF tier # "confirmatory" THEN {[tier |-> tier, reason |-> ""]}
  ELSE IF inf = None
  THEN {[tier |-> t, reason |-> "hac_missing"] :
          t \in {"supportive", "exploratory"}}
  ELSE IF p_flag(inf[1].p_hac, threshold) # Some(TRUE)
  THEN {[tier |-> "supportive", reason |-> "hac_not_significant"]}
  ELSE {[tier |-> "confirmatory", reason |-> ""]}

publication_tier(tier, inf, effect, threshold) ==
  IF tier # "confirmatory" THEN {[tier |-> tier, reason |-> ""]}
  ELSE IF inf = None
  THEN {[tier |-> t, reason |-> "hac_missing"] :
          t \in {"supportive", "exploratory"}}
  ELSE IF sign_of(inf[1].beta) # sign_of(effect)
  THEN {[tier |-> "exploratory", reason |-> "direction_disagree"]}
  ELSE IF p_flag(inf[1].p_hac, threshold) # Some(TRUE)
  THEN {[tier |-> "supportive", reason |-> "hac_not_significant"]}
  ELSE {[tier |-> "confirmatory", reason |-> ""]}

TiersGate == {"confirmatory", "supportive", "exploratory", "missing"}
EffectsGate == {None, Some(Rat(0 - 1, 2)), Some(Zero), Some(Rat(1, 2))}
PValuesGate ==
  {None, Some(Rat(1, 100)), Some(Rat(5, 100)), Some(Rat(1, 10)), Some(Rat(1, 2))}
ThresholdsGate == {Rat(5, 100), Rat(1, 10)}
CompanionsGate ==
  {None} \cup {Some(r) : r \in [beta : EffectsGate, p_hac : PValuesGate]}

InitGate ==
  /\ \E tier \in TiersGate, inf \in CompanionsGate, effect \in EffectsGate,
        threshold \in ThresholdsGate :
       call_in = [fn |-> "publication_tier", tier |-> tier, inf |-> inf,
                  effect |-> effect, threshold |-> threshold]
  /\ call_out = <<>>
  /\ call_pc = "call"
  /\ IdleBH
  /\ IdleEv
  /\ IdleEng

CallGate ==
  /\ call_pc = "call"
  /\ call_in.fn = "publication_tier"
  /\ call_out' \in publication_tier(call_in.tier, call_in.inf, call_in.effect,
                                    call_in.threshold)
  /\ call_pc' = "done"
  /\ UNCHANGED <<call_in, bhVars, evVars, engVars>>

NextGate == CallGate
SpecGate == InitGate /\ [][NextGate]_vars

GateHasRow == call_in.inf # None
GateSignAgrees ==
  /\ GateHasRow
  /\ \/ call_in.inf[1].beta = None /\ (call_in.effect = None
                                       \/ call_in.effect[1][1] = 0)
     \/ /\ call_in.inf[1].beta # None
        /\ \/ call_in.inf[1].beta[1][1] = 0 /\ (call_in.effect = None
                                               \/ call_in.effect[1][1] = 0)
           \/ /\ call_in.inf[1].beta[1][1] # 0
              /\ call_in.effect # None
              /\ call_in.inf[1].beta[1][1] * call_in.effect[1][1] > 0
GateSignificant ==
  /\ GateHasRow
  /\ call_in.inf[1].p_hac # None
  /\ call_in.inf[1].p_hac[1][1] * call_in.threshold[2]
       < call_in.threshold[1] * call_in.inf[1].p_hac[1][2]

C19_WitnessSupportive ==
  /\ call_pc = "done"
  /\ call_in.fn = "publication_tier"
  /\ call_in.tier = "confirmatory"
  /\ GateSignAgrees
  /\ call_in.inf[1].p_hac = Some(call_in.threshold)
  /\ call_out.tier = "supportive"

\* A confirmatory row that passes the gate.
C19_WitnessKept ==
  /\ call_pc = "done"
  /\ call_in.fn = "publication_tier"
  /\ call_in.tier = "confirmatory"
  /\ GateSignAgrees
  /\ GateSignificant
  /\ call_out = [tier |-> "confirmatory", reason |-> ""]

(***************************************************************************)
(* Rows of a finished pass whose test could not be computed, under         *)
(* SpecJoint.                                                              *)
(***************************************************************************)

\* The observations (term-level pass) or subjects (within-president pass)
\* behind a written row.
GroupOfRow(row) ==
  IF cfg.pass = "term" THEN groups[row.metric_id]
  ELSE groups[<<row.metric_id, row.pres_party>>]
\* A party group is empty, or no subject has both flags.
NoStatistic(row) ==
  IF cfg.pass = "term"
  THEN \/ CountWhere(Labels(GroupOfRow(row)), "D") = 0
       \/ CountWhere(Labels(GroupOfRow(row)), "R") = 0
  ELSE \A j \in 1..Len(GroupOfRow(row)) : ~HasBoth(GroupOfRow(row)[j].entries)
Uncomputable(row) == NoStatistic(row) \/ cfg.permutations = 0
ObservedCell(row) ==
  IF cfg.pass = "term" THEN row.observed_diff_d_minus_r
  ELSE row.observed_mean_delta_unified_minus_divided

C20_WitnessNoDraws ==
  /\ pc = "done"
  /\ cfg.pass = "within"
  /\ cfg.permutations = 0
  /\ Len(rows) >= 1
  /\ rows[1].n_presidents_with_both.v >= 1
  /\ ObservedCell(rows[1]).k = "num"
  /\ rows[1].p = EmptyCell
  /\ rows[1].evidence.evidence_tier = "exploratory"

(***************************************************************************)
(* The write-out of an output file (randomization.py 461-468, 710-716,     *)
(* 863-869, 962-964, 1143-1149, 1283-1289; inference.py 481-488, 538-540;  *)
(* cli.py 77-81): a file system of two paths, the destination and          *)
(* destination + ".tmp", each None (absent) or Some(lines).  call_in holds *)
(* the lines to write and the file system before the call, call_out the    *)
(* file system now and call_pc the position in the write-out.  Every       *)
(* system call is a step, and a step can raise instead (OSError).          *)
(***************************************************************************)

MaxRowsWrite == 3

HeaderLine == "header"
LinesWrite == {"a", "b"}

open_dest_for_write(fs) == [fs EXCEPT !.dest = Some(<<>>)]

\* tmp.open("w"): the temp file is created or truncated.
open_for_write(fs) == [fs EXCEPT !.tmp = Some(<<>>)]

\* w.writeheader() / w.writerow(r) on the open handle.
write_line(fs, line) ==
  IF fs.tmp # None THEN [fs EXCEPT !.tmp = Some(fs.tmp[1] \o <<line>>)]
  ELSE [fs EXCEPT !.dest = Some(fs.dest[1] \o <<line>>)]

\* tmp.replace(out_csv): rename over the destination.
replace_tmp(fs) ==
  IF fs.tmp # None THEN [dest |-> fs.tmp, tmp |-> None] ELSE fs

ContentWrite(rs) == <<HeaderLine>> \o rs
ListsWrite == UNION {[1..n -> LinesWrite] : n \in 0..MaxRowsWrite}

\* The destination is absent or holds the output of an earlier run; a temp
\* file may be left from a run that raised.
InitWrite ==
  /\ \E rs \in ListsWrite, old \in {None} \cup {Some(ContentWrite(o)) : o \in ListsWrite},
        stale \in {None, Some(<<HeaderLine>>)} :
       /\ call_in = [fn |-> "write_out", rows |-> rs,
                     fs |-> [dest |-> old, tmp |-> stale]]
       /\ call_out = [dest |-> old, tmp |-> stale]
  /\ call_pc = "open"
  /\ IdleBH
  /\ IdleEv
  /\ IdleEng

OutOpen ==
  /\ call_pc = "open"
  /\ call_in.fn = "write_out"
  /\ call_out' = open_for_write(call_out)
  /\ call_pc' = "header"
  /\ UNCHANGED <<call_in, bhVars, evVars, engVars>>

OutWriteHeader ==
  /\ call_pc = "header"
  /\ call_out' = write_line(call_out, HeaderLine)
  /\ call_pc' = "rows"
  /\ UNCHANGED <<call_in, bhVars, evVars, engVars>>

\* Lines written so far, in the temp file (or in the destination when there
\* is no temp file).
WrittenLines(fs) == IF fs.tmp # None THEN fs.tmp[1] ELSE fs.dest[1]

OutWriteRow ==
  /\ call_pc = "rows"
  /\ Len(WrittenLines(call_out)) - 1 < Len(call_in.rows)
  /\ call_out' = write_line(call_out,
                            call_in.rows[Len(WrittenLines(call_out))])
  /\ UNCHANGED <<call_in, call_pc, bhVars, evVars, engVars>>

OutReplace ==
  /\ call_pc = "rows"
  /\ Len(WrittenLines(call_out)) - 1 = Len(call_in.rows)
  /\ call_out' = replace_tmp(call_out)
  /\ call_pc' = "done"
  /\ UNCHANGED <<call_in, bhVars, evVars, engVars>>

\* open, a write or the rename raises: the with block closes the handle and
\* the exception leaves the function.
OutRaise ==
  /\ call_pc \in {"open", "header", "rows"}
  /\ call_in.fn = "write_out"
  /\ call_pc' = "raised"
  /\ UNCHANGED <<call_in, call_out, bhVars, evVars, engVars>>

NextWrite ==
  \/ OutOpen
  \/ OutWriteHeader
  \/ OutWriteRow
  \/ OutReplace
  \/ OutRaise
SpecWrite == InitWrite /\ [][NextWrite]_vars

\* C21: during a write-out the destination holds what it held before the
\* call or the complete new content, never a part of it; it holds the new
\* content once the call is done, and what it held before when the call
\* raised.
C21_AtomicWrite ==
  call_in # <<>> /\ call_in.fn = "write_out" =>
    /\ call_out.dest \in {call_in.fs.dest, Some(ContentWrite(call_in.rows))}
    /\ call_pc = "done" => call_out.dest = Some(ContentWrite(call_in.rows))
    /\ call_pc # "done" => call_out.dest = call_in.fs.dest

\* Two of three rows are in the temp file when a write raises; the
\* destination still holds the one-row output of the earlier run.
C21_Witness ==
  /\ call_pc = "raised"
  /\ call_in.fn = "write_out"
  /\ call_in.rows = <<"a", "b", "a">>
  /\ call_in.fs.dest = Some(<<HeaderLine, "b">>)
  /\ call_out.tmp = Some(<<HeaderLine, "a", "b">>)
  /\ call_out.dest = Some(<<HeaderLine, "b">>)

\* The rename has replaced the earlier output by the complete new one.
C21_WitnessDone ==
  /\ call_pc = "done"
  /\ call_in.fn = "write_out"
  /\ call_in.rows = <<"a", "b", "a">>
  /\ call_in.fs.dest = Some(<<HeaderLine, "b">>)
  /\ call_out = [dest |-> Some(<<HeaderLine, "a", "b", "a">>), tmp |-> None]

(***************************************************************************)
(* _percentile called on every list of up to MaxLenPct values and on       *)
(* quantiles below, in and above [0, 1].                                   *)
(***************************************************************************)

MaxLenPct == 3

ValuesPct == {1, 2, 4}
QuantilesPct ==
  {Rat(0 - 1, 2), Rat(0, 1), Rat(1, 4), Rat(3, 10), Rat(1, 2), Rat(1, 1),
   Rat(3, 2)}

InitPct ==
  /\ \E n \in 0..MaxLenPct :
       \E xs \in [1..n -> ValuesPct], q \in QuantilesPct :
         call_in = [fn |-> "_percentile", xs |-> xs, q |-> q]
  /\ call_out = <<>>
  /\ call_pc = "call"
  /\ IdleBH
  /\ IdleEv
  /\ IdleEng

CallPct ==
  /\ call_pc = "call"
  /\ call_in.fn = "_percentile"
  /\ call_out' = percentile([i \in 1..Len(call_in.xs) |-> Rat(call_in.xs[i], 1)],
                            call_in.q)
  /\ call_pc' = "done"
  /\ UNCHANGED <<call_in, bhVars, evVars, engVars>>

NextPct == CallPct
SpecPct == InitPct /\ [][NextPct]_vars

\* The k-th smallest entry of xs, k counted from 0.
OrderStat(xs, k) ==
  CHOOSE v \in {xs[i] : i \in 1..Len(xs)} :
    /\ Cardinality({i \in 1..Len(xs) : xs[i] < v}) <= k
    /\ k < Cardinality({i \in 1..Len(xs) : xs[i] <= v})

\* C22: _percentile of the empty list is None; of [x] it is x for every q;
\* at q = 0 it is the minimum and at q = 1 the maximum; for 0 < q < 1 it is
\* ys[lo] + (ys[hi] - ys[lo]) * (q (n - 1) - lo) with lo and hi the floor and
\* the ceiling of q (n - 1) and ys the order statistics.
C22_Percentile ==
  call_pc = "done" /\ call_in.fn = "_percentile" =>
    LET xs == call_in.xs
        q == call_in.q
        n == Len(xs)
    IN  /\ n = 0 <=> call_out = None
        /\ n = 1 => call_out = Some(Rat(xs[1], 1))
        /\ (n >= 1 /\ q = Rat(0, 1)) => call_out = Some(Rat(OrderStat(xs, 0), 1))
        /\ (n >= 1 /\ q = Rat(1, 1))
             => call_out = Some(Rat(OrderStat(xs, n - 1), 1))
        /\ (n >= 1 /\ 0 < q[1] /\ q[1] < q[2]) =>
             LET pn == q[1] * (n - 1)
                 lo == pn \div q[2]
                 r == pn % q[2]
                 hi == IF r = 0 THEN lo ELSE lo + 1
             IN  /\ call_out[1][2] > 0
                 /\ call_out[1][1] * q[2]
                      = call_out[1][2] * (OrderStat(xs, lo) * (q[2] - r)
                                          + OrderStat(xs, hi) * r)

\* [2, 1] at q = 0.3: 1 * 0.7 + 2 * 0.3 = 1.3.
C22_Witness ==
  /\ call_pc = "done"
  /\ call_in.fn = "_percentile"
  /\ call_in.xs = <<2, 1>>
  /\ call_in.q = Rat(3, 10)
  /\ call_out = Some(Rat(13, 10))

\* An unsorted list at q = 1: the maximum.
C22_WitnessMax ==
  /\ call_pc = "done"
  /\ call_in.fn = "_percentile"
  /\ call_in.xs = <<2, 4, 1>>
  /\ call_in.q = Rat(1, 1)
  /\ call_out = Some(Rat(4, 1))

\* One value and a quantile above 1.
C22_WitnessSingle ==
  /\ call_pc = "done"
  /\ call_in.fn = "_percentile"
  /\ call_in.xs = <<4>>
  /\ call_in.q = Rat(3, 2)
  /\ call_out = Some(Rat(4, 1))

(***************************************************************************)
(* Scope guard of the comparison and claims-table commands (cli.py).  A    *)
(* file is [has_scope, has_mp, rows]; a row holds its inference_scope and  *)
(* metric_primary cells, "" when the cell is blank or the column absent.   *)
(***************************************************************************)

MaxFilesScope == 2
MaxRowsScope == 2

ValueError == "ValueError"

\* Cells as read: stripped, None (absent column) as "".
scope_cell(f, i) == IF f.has_scope THEN f.rows[i].scope ELSE ""
mp_cell(f, i) == IF f.has_mp THEN f.rows[i].mp ELSE ""

csv_metric_primary_scope(f) ==
  IF ~f.has_mp THEN <<0, 0>>
  ELSE <<Cardinality({i \in 1..Len(f.rows) : mp_cell(f, i) = "1"}),
         Cardinality({i \in 1..Len(f.rows) : mp_cell(f, i) = "0"})>>

csv_inference_scope(f) ==
  IF ~f.has_scope THEN ""
  ELSE LET scopes == {scope_cell(f, i) : i \in 1..Len(f.rows)} \ {""}
       IN  IF scopes = {} THEN ""
           ELSE IF scopes = {"primary"} THEN "primary"
           ELSE IF scopes = {"all"} THEN "all"
           ELSE ValueError

canonical_randomization_scope_inferred_first(f) ==
  LET scope == csv_inference_scope(f)
      n == csv_metric_primary_scope(f)
  IN  IF n[2] > 0 THEN "all"
      ELSE IF n[1] > 0 THEN "primary"
      ELSE IF scope # "" THEN scope
      ELSE "unknown"

canonical_randomization_scope(f) ==
  LET scope == csv_inference_scope(f)
      n == csv_metric_primary_scope(f)
  IN  IF scope # "" THEN scope
      ELSE IF n[2] > 0 THEN "all"
      ELSE IF n[1] > 0 THEN "primary"
      ELSE "unknown"

\* The loop over paths: the first file whose scope raises ends the call.
RECURSIVE known_scopes(_, _)
known_scopes(paths, i) ==
  IF i > Len(paths) THEN <<>>
  ELSE LET scope == canonical_randomization_scope(paths[i])
       IN  IF scope = ValueError THEN <<ValueError>>
           ELSE LET rest == known_scopes(paths, i + 1)
                IN  IF rest = <<ValueError>> THEN rest
                    ELSE IF scope = "unknown" THEN rest
                    ELSE <<scope>> \o rest

assert_randomization_scopes_compatible(paths) ==
  LET known == known_scopes(paths, 1)
  IN  IF known = <<ValueError>> THEN ValueError
      ELSE IF Len(known) <= 1 THEN "ok"
      ELSE IF Cardinality({known[i] : i \in 1..Len(known)}) <= 1 THEN "ok"
      ELSE ValueError

ScopeCells == {"", "primary", "all", "other"}
PrimaryCells == {"", "0", "1"}
RowsScope == [scope : ScopeCells, mp : PrimaryCells]

\* The rows of file j when the rows flat[1..t] are dealt to the files by owner.
RowsOfFile(flat, owner, j) ==
  [i \in 1..Cardinality({x \in 1..Len(flat) : owner[x] = j}) |->
     flat[i + Cardinality({x \in 1..Len(flat) : owner[x] < j})]]

InitScope ==
  /\ \E k \in 0..MaxFilesScope, t \in 0..MaxRowsScope :
       \E flat \in [1..t -> RowsScope], owner \in [1..t -> 1..k],
          hs \in [1..k -> BOOLEAN], hm \in [1..k -> BOOLEAN] :
         /\ \A x \in 1..t, y \in 1..t : x <= y => owner[x] <= owner[y]
         /\ \A x \in 1..t : /\ ~hs[owner[x]] => flat[x].scope = ""
                            /\ ~hm[owner[x]] => flat[x].mp = ""
         /\ call_in = [fn |-> "_assert_randomization_scopes_compatible",
                       paths |-> [j \in 1..k |->
                                    [has_scope |-> hs[j], has_mp |-> hm[j],
                                     rows |-> RowsOfFile(flat, owner, j)]]]
  /\ call_out = <<>>
  /\ call_pc = "call"
  /\ IdleBH
  /\ IdleEv
  /\ IdleEng

CallScope ==
  /\ call_pc = "call"
  /\ call_in.fn = "_assert_randomization_scopes_compatible"
  /\ call_out' = assert_randomization_scopes_compatible(call_in.paths)
  /\ call_pc' = "done"
  /\ UNCHANGED <<call_in, bhVars, evVars, engVars>>

NextScope == CallScope
SpecScope == InitScope /\ [][NextScope]_vars

\* The non-blank inference_scope values of a file and its metric_primary values.
ExplicitScopes(f) == {f.rows[i].scope : i \in 1..Len(f.rows)} \ {""}
PrimaryValues(f) == {f.rows[i].mp : i \in 1..Len(f.rows)}

\* A file whose explicit values are not all primary or all all.
InconsistentFile(f) ==
  ExplicitScopes(f) # {} /\ ExplicitScopes(f) # {"primary"}
                         /\ ExplicitScopes(f) # {"all"}

CanonicalScope(f) ==
  IF ExplicitScopes(f) = {"primary"} THEN "primary"
  ELSE IF ExplicitScopes(f) = {"all"} THEN "all"
  ELSE IF "0" \in PrimaryValues(f) THEN "all"
  ELSE IF "1" \in PrimaryValues(f) THEN "primary"
  ELSE "unknown"

\* C23: the compatibility check raises ValueError exactly when one file holds
\* inconsistent explicit inference_scope values or two files have known
\* canonical scopes that differ; the canonical scope is the explicit one when
\* the column has values, else all when a metric_primary 0 row exists, else
\* primary when a 1 row exists, else unknown, and unknown files are ignored.
C23_ScopesCompatible ==
  call_pc = "done" /\ call_in.fn = "_assert_randomization_scopes_compatible" =>
    LET paths == call_in.paths
        F == 1..Len(paths)
    IN  /\ call_out \in {"ok", ValueError}
        /\ call_out = ValueError <=>
             \/ \E i \in F : InconsistentFile(paths[i])
             \/ \E i \in F, j \in F :
                  /\ CanonicalScope(paths[i]) \in {"primary", "all"}
                  /\ CanonicalScope(paths[j]) \in {"primary", "all"}
                  /\ CanonicalScope(paths[i]) # CanonicalScope(paths[j])
        /\ \A i \in F : ~InconsistentFile(paths[i]) =>
             canonical_randomization_scope(paths[i]) = CanonicalScope(paths[i])

\* An explicit primary file and a legacy file inferred all: raised.
C23_Witness ==
  /\ call_pc = "done"
  /\ call_in.fn = "_assert_randomization_scopes_compatible"
  /\ Len(call_in.paths) = 2
  /\ call_in.paths[1].rows = <<[scope |-> "primary", mp |-> "0"]>>
  /\ call_in.paths[2].rows = <<[scope |-> "", mp |-> "0"]>>
  /\ call_out = ValueError

\* An explicit primary file, and a file of unknown scope: passes.
C23_WitnessUnknown ==
  /\ call_pc = "done"
  /\ call_in.fn = "_assert_randomization_scopes_compatible"
  /\ Len(call_in.paths) = 2
  /\ call_in.paths[1].rows = <<[scope |-> "primary", mp |-> "1"]>>
  /\ call_in.paths[2].rows = <<[scope |-> "", mp |-> ""]>>
  /\ call_out = "ok"

\* One file with primary and all rows: raised.
C23_WitnessMixed ==
  /\ call_pc = "done"
  /\ call_in.fn = "_assert_randomization_scopes_compatible"
  /\ Len(call_in.paths) = 1
  /\ call_in.paths[1].rows
       = <<[scope |-> "primary", mp |-> "1"], [scope |-> "all", mp |-> "0"]>>
  /\ call_out = ValueError

\* An explicit primary file and a legacy file inferred primary: passes.
C23_WitnessCompatible ==
  /\ call_pc = "done"
  /\ call_in.fn = "_assert_randomization_scopes_compatible"
  /\ Len(call_in.paths) = 2
  /\ call_in.paths[1].rows = <<[scope |-> "primary", mp |-> "1"]>>
  /\ ~call_in.paths[2].has_scope
  /\ call_in.paths[2].rows = <<[scope |-> "", mp |-> "1"]>>
  /\ call_out = "ok"

(***************************************************************************)
(* Primary Metric Grid of the final report (final_report.py).  A claims    *)
(* row holds its effect and q cells in millionths, its n cells and its     *)
(* four tier columns; the grid line shows effect to 3 and q to 4 decimals. *)
(***************************************************************************)

\* _parse_float of final_report.py: None for a blank or non-numeric cell.
final_parse_float(cell) == IF cell.k = "num" THEN Some(Rat(cell.v, 1)) ELSE None

\* Python's `a or b` on float | None: b when a is None or 0.0, else a.
float_or(a, b) == IF a # None /\ a[1][1] # 0 THEN a ELSE b

\* Python's `a or b` on strings: b when a is empty.
str_or(a, b) == IF a # "" THEN a ELSE b

best_claim_tier(row) ==
  str_or(row.tier_strict_publication,
         str_or(row.tier_strict,
                str_or(row.tier_baseline_publication,
                       str_or(row.tier_baseline, "missing"))))

preferred_q(row) ==
  float_or(final_parse_float(row.q_strict), final_parse_float(row.q_baseline))

preferred_effect(row) ==
  float_or(final_parse_float(row.effect_strict),
           final_parse_float(row.effect_baseline))

\* int(txt) of the first non-empty n cell, 0 when int() rejects it.
preferred_n(row) ==
  LET cell == IF row.n_strict.k # "empty" THEN row.n_strict ELSE row.n_baseline
  IN  IF cell.k = "int" THEN cell.v ELSE 0

dir_label(effect) ==
  IF effect = None THEN ""
  ELSE IF effect[1][1] > 0 THEN "D > R"
  ELSE IF effect[1][1] < 0 THEN "R > D"
  ELSE "tie"

\* f"{x:.{digits}f}" of a value in millionths, in units of `unit` millionths;
\* the inputs below hold no value half way between two units.
final_fmt(x, unit) ==
  IF x = None THEN EmptyCell
  ELSE NumCell(fmt_num(<<x[1][1], x[1][2] * unit>>, {}))

ThousandthMicro == 1000
TenThousandthMicro == 100

\* The row as the grid shows it, None for a row the grid leaves out.
grid_line(row, primary) ==
  IF ~primary \/ row.analysis # "term_party" THEN None
  ELSE LET eff == preferred_effect(row)
           q == preferred_q(row)
       IN  Some([effect |-> final_fmt(eff, ThousandthMicro),
                 direction |-> dir_label(eff),
                 q |-> final_fmt(q, TenThousandthMicro),
                 tier |-> best_claim_tier(row),
                 n |-> preferred_n(row)])

TiersGrid == {"", "confirmatory", "exploratory"}
RowsGrid ==
  [analysis : {"term_party", "within_unified"},
   effect_strict : {EmptyCell, TextCell, NumCell(0), NumCell(300),
                    NumCell(1200000)},
   effect_baseline : {EmptyCell, NumCell(0 - 1200000), NumCell(0)},
   q_strict : {EmptyCell, TextCell, NumCell(0), NumCell(30000)},
   q_baseline : {EmptyCell, NumCell(400000)},
   n_strict : {EmptyCell, IntCell(20)},
   n_baseline : {EmptyCell, IntCell(18)},
   tier_strict_publication : TiersGrid,
   tier_strict : TiersGrid,
   tier_baseline_publication : TiersGrid,
   tier_baseline : TiersGrid]

InitGrid ==
  /\ \E row \in RowsGrid, primary \in BOOLEAN :
       call_in = [fn |-> "grid_line", row |-> row, primary |-> primary]
  /\ call_out = <<>>
  /\ call_pc = "call"
  /\ IdleBH
  /\ IdleEv
  /\ IdleEng

CallGrid ==
  /\ call_pc = "call"
  /\ call_in.fn = "grid_line"
  /\ call_out' = grid_line(call_in.row, call_in.primary)
  /\ call_pc' = "done"
  /\ UNCHANGED <<call_in, bhVars, evVars, engVars>>

NextGrid == CallGrid
SpecGrid == InitGrid /\ [][NextGrid]_vars

\* A numeric cell in millionths rounded to `unit` millionths, blank otherwise.
ShownCell(cell, unit) ==
  IF cell.k # "num" THEN EmptyCell
  ELSE NumCell(IF 2 * (cell.v % unit) < unit THEN cell.v \div unit
               ELSE (cell.v \div unit) + 1)

FirstTier(row) ==
  IF row.tier_strict_publication # "" THEN row.tier_strict_publication
  ELSE IF row.tier_strict # "" THEN row.tier_strict
  ELSE IF row.tier_baseline_publication # "" THEN row.tier_baseline_publication
  ELSE IF row.tier_baseline # "" THEN row.tier_baseline
  ELSE "missing"

GridShown ==
  /\ call_pc = "done"
  /\ call_in.fn = "grid_line"
  /\ call_out # None

\* C24: a primary term-party row of the grid shows the strict effect and the
\* strict q whenever the strict cell holds a number, the baseline value only
\* when the strict cell is blank or non-numeric, and as tier the first
\* non-empty of tier_strict_publication, tier_strict,
\* tier_baseline_publication, tier_baseline, else missing.
C24_StrictPreferred ==
  GridShown =>
    LET row == call_in.row
        line == call_out[1]
    IN  /\ line.effect
             = IF row.effect_strict.k = "num"
               THEN ShownCell(row.effect_strict, ThousandthMicro)
               ELSE ShownCell(row.effect_baseline, ThousandthMicro)
        /\ line.q
             = IF row.q_strict.k = "num"
               THEN ShownCell(row.q_strict, TenThousandthMicro)
               ELSE ShownCell(row.q_baseline, TenThousandthMicro)
        /\ line.tier = FirstTier(row)

\* The part of C24 the code keeps: the tier column, and the effect and q
\* columns of every row whose strict cells are not the number zero.
C24_NonZeroStrictPreferred ==
  GridShown =>
    LET row == call_in.row
        line == call_out[1]
    IN  /\ row.effect_strict # NumCell(0) =>
             line.effect
               = IF row.effect_strict.k = "num"
                 THEN ShownCell(row.effect_strict, ThousandthMicro)
                 ELSE ShownCell(row.effect_baseline, ThousandthMicro)
        /\ row.q_strict # NumCell(0) =>
             line.q
               = IF row.q_strict.k = "num"
                 THEN ShownCell(row.q_strict, TenThousandthMicro)
                 ELSE ShownCell(row.q_baseline, TenThousandthMicro)
        /\ line.tier = FirstTier(row)

\* A strict effect of exactly zero next to a baseline effect of -1.2: the
\* grid shows -1.200 and R > D.
C24_ZeroStrictShowsBaseline ==
  /\ GridShown
  /\ call_in.row.effect_strict = NumCell(0)
  /\ call_in.row.effect_baseline = NumCell(0 - 1200000)
  /\ call_out[1].effect = NumCell(0 - 1200)
  /\ call_out[1].direction = "R > D"

(***************************************************************************)
(* The variance tail of _ols_nw and _ols_cluster on its own.  In exact     *)
(* arithmetic the sandwich variance of either estimator is never negative; *)
(* the float v[1][1] can be, so the tail is called on every beta and       *)
(* variance below, the variance in units of 1e-12.                         *)
(***************************************************************************)

BetasTail == {Rat(0 - 2, 1), Rat(0 - 1, 2), Zero, Rat(1, 3), Rat(3, 1)}
VariancesTail ==
  {Rat(0 - 4, 1), Rat(0 - 1, 1), Rat(0 - 999, 1000), Rat(0 - 1, 2),
   Rat(0 - 1, 1000), Zero, Rat(1, 1000), Rat(1, 4), Rat(1, 1), Rat(9, 1)}

InitTail ==
  /\ \E fn \in {"_ols_nw", "_ols_cluster"}, beta \in BetasTail,
        var_beta \in VariancesTail :
       call_in = [fn |-> fn, beta |-> beta, var_beta |-> var_beta]
  /\ call_out = <<>>
  /\ call_pc = "tail"
  /\ IdleBH
  /\ IdleEv
  /\ IdleEng

TailNw ==
  /\ call_pc = "tail"
  /\ call_in.fn = "_ols_nw"
  /\ call_out' = sandwich_result(call_in.beta, call_in.var_beta)
  /\ call_pc' = "done"
  /\ UNCHANGED <<call_in, bhVars, evVars, engVars>>

TailCluster ==
  /\ call_pc = "tail"
  /\ call_in.fn = "_ols_cluster"
  /\ call_out' = sandwich_result(call_in.beta, call_in.var_beta)
  /\ call_pc' = "done"
  /\ UNCHANGED <<call_in, bhVars, evVars, engVars>>

NextTail == TailNw \/ TailCluster
SpecTail == InitTail /\ [][NextTail]_vars

TailDone == call_pc = "done" /\ call_in.fn \in {"_ols_nw", "_ols_cluster"}

\* -1e-12 < v, with v = a / b in units of 1e-12 and b > 0.
AboveNoise(v) == 0 - v[2] < v[1]

\* C25: in the tail of _ols_nw and _ols_cluster a variance that is negative
\* but above -1e-12 is taken as zero; a variance at or below -1e-12 leaves
\* se, z and p undefined and beta returned; a zero standard error leaves z
\* and p undefined; a positive one gives se, z and p.
C25_VarianceTail ==
  TailDone =>
    LET v == call_in.var_beta
    IN  /\ call_out.beta = Some(call_in.beta)
        /\ (v[1] < 0 /\ AboveNoise(v)) =>
             call_out = [beta |-> Some(call_in.beta), se |-> Some(Zero),
                         z |-> None, p |-> None]
        /\ (v[1] < 0 /\ ~AboveNoise(v)) =>
             call_out.se = None /\ call_out.z = None /\ call_out.p = None
        /\ v[1] = 0 =>
             call_out.se = Some(Zero) /\ call_out.z = None /\ call_out.p = None
        /\ v[1] > 0 =>
             /\ call_out.se = Some(v)
             /\ call_out.z # None
             /\ call_out.p # None
             /\ call_out.z[1][1] * v[1] * call_in.beta[2] * call_in.beta[2]
                  = (IF call_in.beta[1] < 0 THEN 0 - 1 ELSE 1)
                    * call_in.beta[1] * call_in.beta[1] * v[2] * call_out.z[1][2]

\* A variance of -5e-13: clamped, se zero, no z.
C25_Witness ==
  /\ TailDone
  /\ call_in.fn = "_ols_nw"
  /\ call_in.var_beta = Rat(0 - 1, 2)
  /\ call_in.beta = Rat(3, 1)
  /\ call_out.se = Some(Zero)
  /\ call_out.z = None

\* A variance of exactly -1e-12 in the cluster estimator: beta alone.
C25_WitnessFailure ==
  /\ TailDone
  /\ call_in.fn = "_ols_cluster"
  /\ call_in.var_beta = Rat(0 - 1, 1)
  /\ call_out.beta = Some(call_in.beta)
  /\ call_out.se = None

\* A variance of exactly zero.
C25_WitnessZero ==
  /\ TailDone
  /\ call_in.var_beta = Zero
  /\ call_in.beta = Rat(0 - 2, 1)
  /\ call_out.se = Some(Zero)
  /\ call_out.p = None

(***************************************************************************)
(* The regression coefficient against the permutation effect: both         *)
(* estimators and _diff_d_minus_r on the observations of one metric.       *)
(***************************************************************************)

\* labels of the permutation engine for the 0/1 indicator of the inference
\* table: d = 1 if party == "D" else 0.
LabelsOfD(d) == [i \in 1..Len(d) |-> IF d[i] = 1 THEN "D" ELSE "R"]

OlsEstimated ==
  /\ call_pc = "done"
  /\ call_in.fn \in {"_ols_nw", "_ols_cluster"}
  /\ Len(call_in.y) >= 3
  /\ ~ConstantD(call_in.d)

C28_WitnessZero ==
  /\ OlsEstimated
  /\ call_in.fn = "_ols_nw"
  /\ call_in.y = <<1, 1, 1>>
  /\ call_in.d = <<1, 0, 0>>
  /\ sign_of(call_out.beta) = 0

(***************************************************************************)
(* Ties and row order in _add_bh_q_values, checked under SpecBH.           *)
(***************************************************************************)

\* min over the numeric p-values v >= p of v * m / #{rows with p <= v}: a
\* function of p and of the multiset of numeric p-values alone.
BHOfMultiset(rs, p) ==
  LET m == Cardinality(NumIdx(rs))
      cands == {Rat(PAt(rs, j) * m,
                    Cardinality({l \in NumIdx(rs) : PAt(rs, l) <= PAt(rs, j)})) :
                  j \in {l \in NumIdx(rs) : PAt(rs, l) >= p}}
  IN  CHOOSE x \in cands : \A y \in cands : RLe(x, y)

\* The q of row i before it is written as text.
BHExactQ(rs, i) ==
  idx_to_q(sorted_by_p(p_items_from(rs, 1)), bh_q_tmp(rs), i)

RowOrders(n) ==
  {f \in [1..n -> 1..n] : \A a \in 1..n, b \in 1..n : f[a] = f[b] => a = b}

\* C29: rows with equal p-values receive equal q-values, and the q of a row
\* is decided by its own p and the multiset of numeric p-values: it is the
\* six-decimal text of min over v >= p of v * m / #{p' <= v}, and reordering
\* the rows moves every q with its row.
C29_BHTies ==
  bh_pc = "done" =>
    /\ \A i \in NumIdx(bh_in), j \in NumIdx(bh_in) :
         PAt(bh_in, i) = PAt(bh_in, j) => bh_rows[i].q = bh_rows[j].q
    /\ \A i \in NumIdx(bh_in) :
         /\ bh_rows[i].q.k = "num"
         /\ Nearest(bh_rows[i].q.v, BHOfMultiset(bh_in, PAt(bh_in, i)))
    /\ \A f \in RowOrders(Len(bh_in)) :
         LET moved == [k \in 1..Len(bh_in) |-> bh_in[f[k]]]
         IN  \A k \in 1..Len(bh_in) :
               BHExactQ(moved, k) = BHExactQ(bh_in, f[k])

\* p = 0.04, 0.01, 0.04: the tied rows hold ranks 2 and 3 and both get 0.04,
\* although 0.04 * 3 / 2 = 0.06 is the own ratio of rank 2.
C29_Witness ==
  /\ bh_pc = "done"
  /\ Len(bh_in) = 3
  /\ bh_in[1].p = NumCell(40000)
  /\ bh_in[2].p = NumCell(10000)
  /\ bh_in[3].p = NumCell(40000)
  /\ bh_rows[1].q = NumCell(40000)
  /\ bh_rows[3].q = NumCell(40000)
  /\ bh_rows[2].q = NumCell(30000)

\* Tied p-values whose q is half way between two millionths: 0.000005 * 3 / 2.
C29_WitnessHalfWay ==
  /\ bh_pc = "done"
  /\ Len(bh_in) = 3
  /\ bh_in[1].p = NumCell(5)
  /\ bh_in[2].p = NumCell(5)
  /\ bh_in[3].p = NumCell(Micro)
  /\ bh_rows[1].q = bh_rows[2].q
  /\ bh_rows[1].q.v \in {7, 8}

(***************************************************************************)
(* SpecFrame: one run of either pass, the term-level pass on the tables of *)
(* SpecPerm and the within-president pass on the tables of SpecWithin.     *)
(***************************************************************************)
InitFrame == InitPerm \/ InitWithin

NextFrame ==
  \/ Load
  \/ NextMetric
  \/ ShuffleBlock
  \/ EndPermutation
  \/ FinishMetric
  \/ FinishRun
  \/ WLoad
  \/ WNextGroup
  \/ WShuffleTerm
  \/ WEndPermutation
  \/ WFinishGroup
  \/ WFinishRun
SpecFrame == InitFrame /\ [][NextFrame]_vars

\* The positions of the blocks shuffled so far in the current iteration.
ShuffledIdx ==
  UNION {{block_to_idx[k].idxs[j] : j \in 1..Len(block_to_idx[k].idxs)} :
           k \in 1..blk}

\* C27: the observations are never changed: at every point of a run the
\* groups are the loaded input, every permutation iteration starts from the
\* original labels (flags), a shuffled block holds the original labels of
\* the block in some order, and the labels outside the shuffled blocks are
\* the original ones.
C27_ObservationsFrame ==
  /\ (pc # "start" /\ cfg.pass = "term") =>
       groups = load_term_metric_groups(table)
  /\ (pc # "start" /\ cfg.pass = "within") =>
       groups = load_window_groups(table, window_labels)
  /\ pc = "perm" =>
       LET obs == groups[metric]
       IN  /\ Len(perm_labels) = Len(obs)
           /\ \A i \in (1..Len(obs)) \ ShuffledIdx :
                perm_labels[i] = obs[i].party
           /\ \A k \in 1..blk :
                LET idxs == block_to_idx[k].idxs
                    at(lab) == {j \in 1..Len(idxs) : lab[idxs[j]] = "D"}
                IN  Cardinality(at(perm_labels))
                      = Cardinality(at([i \in 1..Len(obs) |-> obs[i].party]))
           /\ \A i \in 1..Len(obs) : perm_labels[i] \in {"D", "R"}
  /\ pc = "w_perm" =>
       /\ term_items = groups[metric]
       /\ ti >= 1 =>
            LET es == term_items[ti].entries
            IN  /\ Len(flags) = Len(es)
                /\ Cardinality({i \in 1..Len(es) : flags[i] = 1})
                     = Cardinality({i \in 1..Len(es) : es[i].unified = 1})
                /\ \A i \in 1..Len(es) : flags[i] \in {0, 1}

\* The second iteration starts from the original labels although the first
\* one exchanged the labels of the D and the R term.
C27_Witness ==
  /\ pc = "perm"
  /\ it = 1
  /\ blk = 0
  /\ Len(perm_diffs) = 1
  /\ diff_d_minus_r(Values(groups[metric]),
                    [i \in 1..Len(groups[metric]) |-> groups[metric][i].party])
       = Some(Rat(1, 1))
  /\ perm_diffs[1] = Rat(0 - 1, 1)
  /\ perm_labels = [i \in 1..Len(groups[metric]) |-> groups[metric][i].party]

\* The within pass after a draw that exchanged the flags of a subject.
C27_WitnessWithin ==
  /\ pc = "w_perm"
  /\ it >= 1
  /\ ti >= 1
  /\ flags # [i \in 1..Len(term_items[ti].entries) |->
                term_items[ti].entries[i].unified]
  /\ groups = load_window_groups(table, window_labels)

(***************************************************************************)
(* SpecIndep: the command is run twice on the same files with the same     *)
(* seed; the second run has another bootstrap sample count, or another     *)
(* permutation count or block size.                                        *)
(***************************************************************************)
TermRowsIndep ==
  << [metric_id |-> 1, party |-> "D", value |-> Some(1), term_start |-> Some(0)],
     [metric_id |-> 1, party |-> "D", value |-> Some(3), term_start |-> Some(0)],
     [metric_id |-> 1, party |-> "R", value |-> Some(0), term_start |-> Some(2)],
     [metric_id |-> 2, party |-> "D", value |-> Some(1), term_start |-> Some(0)],
     [metric_id |-> 2, party |-> "R", value |-> Some(0), term_start |-> Some(0)] >>

WindowRowsIndep == SubSeq(WindowRowsRun, 1, 6)

InitIndep ==
  \/ \E n \in 0..MaxPermsRun, b \in 0..MaxBootRun, by \in 0..MaxBlockYears :
       InitEngine(TermRowsIndep, <<>>,
                  [pass |-> "term", permutations |-> n,
                   seed |-> DefaultSeed, block_years |-> by,
                   bootstrap_samples |-> b,
                   q_threshold |-> Rat(STRICT_Q_DEFAULT, 1),
                   min_n_obs |-> 2, runs |-> 2])
  \/ \E n \in 0..MaxPermsRun, b \in 0..MaxBootRun :
       InitEngine(WindowRowsIndep, WindowLabelsRun,
                  [pass |-> "within", permutations |-> n,
                   seed |-> DefaultSeed, bootstrap_samples |-> b,
                   min_window_days |-> 0,
                   q_threshold |-> Rat(STRICT_Q_DEFAULT, 1),
                   min_n_within_both |-> 2, runs |-> 2])

\* The configurations of a second run that keeps the permutation side or
\* the bootstrap side of c.
ChangedCfg(c) ==
  {c2 \in {[c EXCEPT !.permutations = n, !.bootstrap_samples = b] :
             n \in 0..MaxPermsRun, b \in 0..MaxBootRun}
          \cup (IF c.pass = "term"
                THEN {[c EXCEPT !.block_years = by] : by \in 0..MaxBlockYears}
                ELSE {}) :
     c2 # c}

\* A new process on the same files with the changed parameters.
RerunChanged ==
  /\ pc = "done"
  /\ run < cfg.runs
  /\ cfg' \in ChangedCfg(cfg)
  /\ run' = run + 1
  /\ prev_out' = out_csv
  /\ pc' = "start"
  /\ groups' = <<>>
  /\ todo' = <<>>
  /\ metric' = 0
  /\ block_to_idx' = <<>>
  /\ perm_labels' = <<>>
  /\ blk' = 0
  /\ shuffled' = <<>>
  /\ it' = 0
  /\ perm_diffs' = <<>>
  /\ rows' = <<>>
  /\ term_items' = <<>>
  /\ ti' = 0
  /\ flags' = <<>>
  /\ ds' = <<>>
  /\ perm_stats' = <<>>
  /\ UNCHANGED <<table, rng, boot_rng, tape, out_csv, window_labels, ties,
                 bhVars, evVars, callVars>>

NextIndep ==
  \/ Load
  \/ NextMetric
  \/ ShuffleBlock
  \/ EndPermutation
  \/ FinishMetric
  \/ FinishRun
  \/ WLoad
  \/ WNextGroup
  \/ WShuffleTerm
  \/ WEndPermutation
  \/ WFinishGroup
  \/ WFinishRun
  \/ RerunChanged
SpecIndep == InitIndep /\ [][NextIndep]_vars

\* The permutation side and the bootstrap side of the parameters of a row.
SamePermutationSide(a, b) ==
  /\ a.permutations = b.permutations
  /\ a.seed = b.seed
  /\ cfg.pass = "term" => a.block_years = b.block_years
SameBootstrapSide(a, b) ==
  a.bootstrap_samples = b.bootstrap_samples /\ a.seed = b.seed

PermutationOutputs(r) ==
  <<r.perm_mean, r.perm_std, r.z_score, r.p, r.q, r.evidence.evidence_tier>>
BootstrapOutputs(r) == <<r.bootstrap_ci95_low, r.bootstrap_ci95_high>>

\* C26: of two runs on the same inputs with the same seed, rows with the
\* same permutation count (and block size) have the same perm_mean,
\* perm_std, z, p, q and tier whatever the bootstrap sample counts are, and
\* rows with the same bootstrap sample count have the same CI bounds
\* whatever the permutation counts and block sizes are.
C26_GeneratorsIndependent ==
  (run = 2 /\ pc = "done") =>
    /\ Len(out_csv) = Len(prev_out)
    /\ \A i \in 1..Len(out_csv) :
         /\ out_csv[i].metric_id = prev_out[i].metric_id
         /\ SamePermutationSide(prev_out[i], out_csv[i]) =>
              PermutationOutputs(out_csv[i]) = PermutationOutputs(prev_out[i])
         /\ SameBootstrapSide(prev_out[i], out_csv[i]) =>
              BootstrapOutputs(out_csv[i]) = BootstrapOutputs(prev_out[i])

\* A term-level second run with a bootstrap where the first had none: the
\* permutation columns of a row with p < 1 are those of the first run.
C26_Witness ==
  /\ run = 2
  /\ pc = "done"
  /\ cfg.pass = "term"
  /\ \E i \in 1..Len(out_csv) :
       /\ prev_out[i].bootstrap_samples = 0
       /\ out_csv[i].bootstrap_samples = 1
       /\ out_csv[i].permutations = 1
       /\ prev_out[i].bootstrap_ci95_low = EmptyCell
       /\ out_csv[i].bootstrap_ci95_low.k = "num"
       /\ out_csv[i].p.k = "num"
       /\ PermutationOutputs(out_csv[i]) = PermutationOutputs(prev_out[i])

\* A second run with a permutation where the first had none: the CI bounds,
\* which came out of draws, are those of the first run.
C26_WitnessBootstrap ==
  /\ run = 2
  /\ pc = "done"
  /\ \E i \in 1..Len(out_csv) :
       /\ prev_out[i].permutations = 0
       /\ out_csv[i].permutations = 1
       /\ out_csv[i].bootstrap_samples = 1
       /\ out_csv[i].p.k = "num"
       /\ prev_out[i].p.k # "num"
       /\ out_csv[i].bootstrap_ci95_low.k = "num"
       /\ BootstrapOutputs(out_csv[i]) = BootstrapOutputs(prev_out[i])
       /\ boot_rng.pos >= 2

\* The same in the within-president pass.
C26_WitnessWithin ==
  /\ run = 2
  /\ pc = "done"
  /\ cfg.pass = "within"
  /\ \E i \in 1..Len(out_csv) :
       /\ prev_out[i].permutations = 0
       /\ out_csv[i].permutations = 1
       /\ out_csv[i].p.k = "num"
       /\ out_csv[i].bootstrap_ci95_low.k = "num"
       /\ BootstrapOutputs(out_csv[i]) = BootstrapOutputs(prev_out[i])

(***************************************************************************)
(* SpecDegenerate: the command is run on files that hold degenerate        *)
(* metrics (one party only; no president with both kinds of window) and    *)
(* run again, with the same parameters, on the files without the rows of   *)
(* one degenerate metric.                                                  *)
(***************************************************************************)
TermRowsDegenerate ==
  << [metric_id |-> 1, party |-> "D", value |-> Some(1), term_start |-> Some(0)],
     [metric_id |-> 1, party |-> "D", value |-> Some(3), term_start |-> Some(0)],
     [metric_id |-> 2, party |-> "D", value |-> Some(1), term_start |-> Some(0)],
     [metric_id |-> 2, party |-> "R", value |-> Some(0), term_start |-> Some(2)],
     [metric_id |-> 2, party |-> "D", value |-> Some(3), term_start |-> Some(0)],
     [metric_id |-> 3, party |-> "R", value |-> Some(0), term_start |-> Some(0)],
     [metric_id |-> 3, party |-> "D", value |-> Some(1), term_start |-> Some(0)] >>

\* Metric 1 has unified windows only in the D terms; metric 2 has both kinds
\* in the D terms 1 and 3.
WindowRowsDegenerate ==
  << [metric_id |-> 1, term_id |-> 1, value |-> Some(1)],
     [metric_id |-> 1, term_id |-> 5, value |-> Some(2)],
     [metric_id |-> 1, term_id |-> 3, value |-> Some(1)],
     [metric_id |-> 1, term_id |-> 4, value |-> Some(0)],
     [metric_id |-> 2, term_id |-> 1, value |-> Some(1)],
     [metric_id |-> 2, term_id |-> 2, value |-> Some(0)],
     [metric_id |-> 2, term_id |-> 5, value |-> Some(3)],
     [metric_id |-> 2, term_id |-> 6, value |-> Some(0)] >>

\* The tables keep the rows of metric 2 and any of the other rows.
InitDegenerate ==
  \/ \E tbl \in SubLists(TermRowsDegenerate), n \in 1..MaxPermsRun,
        b \in 0..MaxBootRun, by \in 0..MaxBlockYears :
       /\ Cardinality({i \in 1..Len(tbl) : tbl[i].metric_id = 2}) = 3
       /\ InitEngine(tbl, <<>>,
                     [pass |-> "term", permutations |-> n,
                      seed |-> DefaultSeed, block_years |-> by,
                      bootstrap_samples |-> b,
                      q_threshold |-> Rat(750000, 1),
                      min_n_obs |-> 2, runs |-> 2])
  \/ \E tbl \in SubLists(WindowRowsDegenerate), n \in 1..MaxPermsRun,
        b \in 0..MaxBootRun :
       /\ Cardinality({i \in 1..Len(tbl) : tbl[i].metric_id = 2}) = 4
       /\ InitEngine(tbl, WindowLabelsRun,
                     [pass |-> "within", permutations |-> n,
                      seed |-> DefaultSeed, bootstrap_samples |-> b,
                      min_window_days |-> 0,
                      q_threshold |-> Rat(750000, 1),
                      min_n_within_both |-> 1, runs |-> 2])

\* The keys of the degenerate groups of the run that ended.
DegenerateKeys ==
  IF cfg.pass = "term"
  THEN {k \in DOMAIN groups :
          \/ CountWhere(Labels(groups[k]), "D") = 0
          \/ CountWhere(Labels(groups[k]), "R") = 0}
  ELSE {k \in DOMAIN groups : observed_term_deltas(groups[k]) = <<>>}

\* The input rows that do not belong to group k.
RowsWithout(tbl, wl, k) ==
  IF cfg.pass = "term"
  THEN SelectSeq(tbl, LAMBDA row : row.metric_id # k)
  ELSE SelectSeq(tbl, LAMBDA row :
         ~(/\ WRowKept(row, wl)
           /\ <<row.metric_id,
                window_label(wl, row.term_id)[1].pres_party>> = k))

\* A new process, with the same parameters, on the files without the rows
\* of one degenerate group.
RerunWithout ==
  /\ pc = "done"
  /\ run < cfg.runs
  /\ \E k \in DegenerateKeys : table' = RowsWithout(table, window_labels, k)
  /\ run' = run + 1
  /\ prev_out' = out_csv
  /\ pc' = "start"
  /\ groups' = <<>>
  /\ todo' = <<>>
  /\ metric' = 0
  /\ block_to_idx' = <<>>
  /\ perm_labels' = <<>>
  /\ blk' = 0
  /\ shuffled' = <<>>
  /\ it' = 0
  /\ perm_diffs' = <<>>
  /\ rows' = <<>>
  /\ term_items' = <<>>
  /\ ti' = 0
  /\ flags' = <<>>
  /\ ds' = <<>>
  /\ perm_stats' = <<>>
  /\ UNCHANGED <<cfg, rng, boot_rng, tape, out_csv, window_labels, ties,
                 bhVars, evVars, callVars>>

NextDegenerate ==
  \/ Load
  \/ NextMetric
  \/ ShuffleBlock
  \/ EndPermutation
  \/ FinishMetric
  \/ FinishRun
  \/ WLoad
  \/ WNextGroup
  \/ WShuffleTerm
  \/ WEndPermutation
  \/ WFinishGroup
  \/ WFinishRun
  \/ RerunWithout
SpecDegenerate == InitDegenerate /\ [][NextDegenerate]_vars

\* The key of an output row, and the rows of an output with another key.
RowKey(r) ==
  IF cfg.pass = "term" THEN <<r.metric_id>> ELSE <<r.metric_id, r.pres_party>>
RECURSIVE OutputWithout(_, _)
OutputWithout(out, key) ==
  IF out = <<>> THEN <<>>
  ELSE (IF RowKey(out[1]) = key THEN <<>> ELSE <<out[1]>>)
         \o OutputWithout(Tail(out), key)
ObservedOf(r) ==
  IF cfg.pass = "term" THEN r.observed_diff_d_minus_r
  ELSE r.observed_mean_delta_unified_minus_divided

\* C30: the first run wrote one row more than the second, the row of the
\* degenerate group, with no p, no q, no null statistics and no CI; every
\* other row of the first run is, column by column, the row the second run
\* wrote, and both runs wrote a row for every group of their input.
C30_DegenerateFrame ==
  (run = 2 /\ pc = "done") =>
    /\ Len(prev_out) = Len(out_csv) + 1
    /\ Len(out_csv) = Cardinality(DOMAIN groups)
    /\ \E i \in 1..Len(prev_out) :
         /\ out_csv = OutputWithout(prev_out, RowKey(prev_out[i]))
         /\ prev_out[i].p = EmptyCell
         /\ prev_out[i].q = EmptyCell
         /\ prev_out[i].perm_mean = EmptyCell
         /\ prev_out[i].perm_std = None
         /\ prev_out[i].bootstrap_ci95_low = EmptyCell
         /\ prev_out[i].bootstrap_ci95_high = EmptyCell
         /\ prev_out[i].evidence.evidence_tier = "exploratory"

\* While the row of a degenerate group is made neither generator moves.
C30_NoDraws ==
  [][(pc \in {"stats", "w_stats"} /\ metric \in DegenerateKeys)
       => (rng' = rng /\ boot_rng' = boot_rng /\ tape' = tape)]_vars

\* The degenerate metric 1 came first in the first run; metric 2, after it,
\* has a p below 1 and a CI out of draws, the same in both runs.
C30_Witness ==
  /\ run = 2
  /\ pc = "done"
  /\ cfg.pass = "term"
  /\ Len(prev_out) >= 2
  /\ prev_out[1].metric_id = 1
  /\ prev_out[1].n_obs = IntCell(2)
  /\ prev_out[1].p = EmptyCell
  /\ out_csv[1].metric_id = 2
  /\ out_csv[1] = prev_out[2]
  /\ out_csv[1].p.k = "num"
  /\ out_csv[1].p.v < Micro
  /\ out_csv[1].bootstrap_ci95_low.k = "num"
  /\ rng.pos >= 2
  /\ boot_rng.pos >= 3

\* The same in the within-president pass: the group (1, D) has no president
\* with both kinds of window.
C30_WitnessWithin ==
  /\ run = 2
  /\ pc = "done"
  /\ cfg.pass = "within"
  /\ prev_out[1].metric_id = 1
  /\ prev_out[1].pres_party = "D"
  /\ prev_out[1].n_presidents_with_both = IntCell(0)
  /\ out_csv = Tail(prev_out)
  /\ \E i \in 1..Len(out_csv) : /\ out_csv[i].p.k = "num"
                               /\ out_csv[i].bootstrap_ci95_low.k = "num"

====
